---- MODULE Spec2Model ----
(***************************************************************************)
(* Verification model of the semantic workflow engine of workflow-use.     *)
(*                                                                         *)
(* Part I   - the workflow driver and the executor's verification/retry    *)
(*            loop (_execute_with_verification_and_retry).                 *)
(* Part II  - the semantic mapper and the step resolver                    *)
(*            (find_element_by_text and its matching algorithms).          *)
(* Part III - the fuzzy score of one text against another.                 *)
(* Part IV  - the selection of a radio option.                             *)
(* Part V   - the converter (_extract_semantic_target_text).               *)
(* Part VI  - the recorder of the extension (extractSemanticInfo and the   *)
(*            click, input, select and keydown handlers).                  *)
(* Part VII - the _radioButtonInfo that extractSemanticInfo stores on a    *)
(*            radio button or checkbox.                                    *)
(* Part VIII- getXPath.                                                    *)
(* Part IX  - the scroll events of the rrweb recorder: debouncing and the  *)
(*            change of direction.                                         *)
(* Part X   - the life of the recorder in the content script: starting     *)
(*            and stopping, the status messages, the overlays.             *)
(* Part XI  - the extraction dialog of the side panel                      *)
(*            (handleAddExtraction).                                       *)
(***************************************************************************)
EXTENDS Integers, Sequences, FiniteSets, TLC

(***************************************************************************)
(* Bounds of the model.                                                    *)
(***************************************************************************)
\* largest value of max_retries that is explored (0..MaxRetries)
MaxRetries == 2
\* number of steps of the workflow that is run
NumSteps == 2
\* largest number of interactive elements of a page
MaxElems == 3
\* greatest length of the two texts that are scored against each other
MaxTextLen == 3
\* number of radio inputs of a group
NumOptions == 3

VARIABLES
    \* ---- Part I: configuration of one run ----
    max_retries,          \* self.max_retries
    verification_method,  \* per step: TRUE iff a verification method is supplied
    required,             \* per step: TRUE iff the step is a required step
    policy,               \* workflow policy on a failed step: "abort" | "continue"
    \* ---- Part I: state of the driver and of the retry loop ----
    pc,                   \* position of the run
    cur,                  \* index of the step the driver is at
    attempt,              \* the loop variable of `for attempt in range(max_retries)`
    pending,              \* the exception `e` held by the handler while it backs off
    mappingFresh,         \* TRUE iff the mapping was built after the last page action
    stepState,            \* per step: "pending" | "active" | "done" | "failed"
    stepResult,           \* per step: recorded result
    aborted,              \* the driver stopped the run after a failed step
    runSuccess,           \* overall result: "unset" | "true" | "false"
    cancelRequested,      \* the caller asked for the run to be cancelled
    \* ---- Part I: history of the current step (observation only) ----
    attempts,             \* attempts started for the current step
    actions,              \* primitive actions performed for the current step
    acted,                \* the primitive action of this attempt was performed
    verdict,              \* what the verification of this attempt gave
    onlyFalse,            \* every call so far ended in verification returning false
    usedStale,            \* some primitive action used a mapping older than the last action
    failures,             \* failed attempts of the current step
    lastErr,              \* kind of the failure of the last failed attempt
    failedWith,           \* per step: the failure it ended on when all its attempts failed
    startedAfterCancel,   \* an attempt or a step was started after cancellation was requested
    \* ---- Part II: the page, one mapping pass over it, one resolution ----
    page,                 \* the interactive elements of the page, in document order
    mapping,              \* the mapping of the last pass (entries in insertion order)
    target_text,          \* the target text of the step being resolved
    resolution,           \* what resolve gave for target_text
    rpc,                  \* "scan" | "ready" | "resolved"
    hints,                \* the container_hint and position_hint of the step being resolved
    recorded,             \* the element a hinted step was recorded on (0: none)
    \* ---- Part III: two texts scored against each other ----
    textA,                \* one text
    textB,                \* the other text
    scoreAB,              \* the fuzzy score of target textA against key textB (-1: not scored)
    scoreBA,              \* the fuzzy score of target textB against key textA (-1: not scored)
    spc,                  \* "texts" | "scored"
    \* ---- Part IV: a form with radio groups ----
    checked,              \* per group, per input (in document order): its checked state
    beforeChecked,        \* the checked states before the last selection (observation only)
    selGroup,             \* the group of the last selection
    selOption,            \* the optionValue of the last selection (0: none)
    rapc,                 \* "form" | "selected"
    \* ---- Part V: the converter ----
    step,                 \* a recorded step: targetText, elementText, semanticInfo
    converted,            \* what _extract_semantic_target_text returned for it
    cpc,                  \* "recorded" | "converted"
    \* ---- Part VI: the recorder (content script) ----
    element,              \* the element an event is targeted at, with its surroundings
    message,              \* the message sent to the background script for the event
    epc,                  \* "page" | "sent" | "skipped" | "ignored"
    pressed,              \* the key of the last keydown, and whether Ctrl or Meta was down
    \* ---- Part VII: the radio buttons and checkboxes of a document ----
    radios,               \* the radio buttons and checkboxes of the document, in document order
    picked,               \* the one of them extractSemanticInfo is called on (0: none yet)
    radioButtonInfo,      \* the _radioButtonInfo stored on it: fieldName, optionValue, allOptions
    gpc,                  \* "document" | "extracted"
    \* ---- Part VIII: getXPath ----
    dom,                  \* the elements of the document: parent, tag and id of each
    target,               \* the element getXPath is called on (0: none yet)
    xpath,                \* what the call gave: a path, or the TypeError it threw
    xpc,                  \* "document" | "done"
    \* ---- Part IX: the rrweb recorder's scroll events ----
    isRecordingActive,    \* the content script is recording
    scrollTimeout,        \* the pending timer of the debouncer: its event and the time left
    lastScrollY,          \* the y of the last scroll event (<<>>: null)
    lastDirection,        \* "null" | "up" | "down"
    sent,                 \* the RRWEB_EVENT messages sent, in order
    emitted,              \* the number of events rrweb has emitted
    lastEvent,            \* the last scroll event emitted, and its direction (observation only)
    sinceScroll,          \* the time since that event, in ms (observation only)
    cancelled,            \* the events whose timer a change of direction cleared (observation only)
    \* ---- Part X: the life of the recorder in the content script ----
    stopRecording,        \* the stop function of the running rrweb session is defined
    listeners,            \* the custom event listeners are attached to the document
    sessions,             \* the rrweb sessions that are running (observation only)
    started,              \* the rrweb sessions started so far (observation only)
    statusRequest,        \* REQUEST_RECORDING_STATUS: "idle" | "pending" | "answered" | "failed"
    handled,              \* the handler that ran last (observation only)
    called,               \* the function it called: "none" | "startRecorder" | "stopRecorder"
    currentOverlay,       \* currentOverlay is not null
    currentFocusOverlay,  \* currentFocusOverlay is not null
    hoverOverlays,        \* the div.highlight-overlay elements in the document
    focusOverlays,        \* the div.focus-overlay elements in the document
    \* ---- Part XI: the extraction dialog of the side panel ----
    extractionGoal,       \* the text of the goal field
    showExtractionDialog, \* the dialog is open
    request,              \* the ADD_EXTRACTION_STEP message: not sent, in flight or answered
    responseReceived,     \* the flag of the request's closure
    timeoutId,            \* the 5-second timer of the request: its state and the time left
    alerts,               \* the alerts shown, in order
    dialogClosed,         \* the response handler closed the dialog and cleared the goal
    waited                \* the time since the request was sent, in ms (observation only)

execVars == <<max_retries, verification_method, required, policy, pc, cur, attempt,
              pending, mappingFresh, stepState, stepResult, aborted, runSuccess,
              cancelRequested, attempts, actions, acted, verdict, onlyFalse,
              usedStale, failures, lastErr, failedWith, startedAfterCancel>>

\* the configuration of a run, which no action changes
cfgVars == <<max_retries, verification_method, required, policy>>

resVars == <<page, mapping, target_text, resolution, rpc, hints, recorded>>

scoreVars == <<textA, textB, scoreAB, scoreBA, spc>>
radioVars == <<checked, beforeChecked, selGroup, selOption, rapc>>
convVars == <<step, converted, cpc>>
recVars == <<element, message, epc, pressed>>
groupVars == <<radios, picked, radioButtonInfo, gpc>>

\* the variables of the parts after Part VI
xpathVars == <<dom, target, xpath, xpc>>
scrollVars == <<isRecordingActive, scrollTimeout, lastScrollY, lastDirection, sent,
                emitted, lastEvent, sinceScroll, cancelled>>
restScrollVars == <<scrollTimeout, lastScrollY, lastDirection, sent, emitted, lastEvent,
                    sinceScroll, cancelled>>
lifeVars == <<stopRecording, listeners, sessions, started, statusRequest, handled, called,
              currentOverlay, currentFocusOverlay, hoverOverlays, focusOverlays>>
askVars == <<extractionGoal, showExtractionDialog, request, responseReceived, timeoutId,
             alerts, dialogClosed, waited>>
laterVars == <<groupVars, xpathVars, scrollVars, lifeVars, askVars>>
vars == <<execVars, resVars, scoreVars, radioVars, convVars, recVars, laterVars>>

\* what the actions of Part I leave alone, and what those of Part II leave alone
notExecVars == <<resVars, scoreVars, radioVars, convVars, recVars, laterVars>>
notResVars == <<execVars, scoreVars, radioVars, convVars, recVars, laterVars>>
notScoreVars == <<execVars, resVars, radioVars, convVars, recVars, laterVars>>
notRadioVars == <<execVars, resVars, scoreVars, convVars, recVars, laterVars>>
notConvVars == <<execVars, resVars, scoreVars, radioVars, recVars, laterVars>>
notRecVars == <<execVars, resVars, scoreVars, radioVars, convVars, laterVars>>
earlierVars == <<execVars, resVars, scoreVars, radioVars, convVars, recVars>>
notGroupVars == <<earlierVars, xpathVars, scrollVars, lifeVars, askVars>>
notXPathVars == <<earlierVars, groupVars, scrollVars, lifeVars, askVars>>
notScrollVars == <<earlierVars, groupVars, xpathVars, lifeVars, askVars>>
notLifeVars == <<earlierVars, groupVars, xpathVars, restScrollVars, askVars>>
notAskVars == <<earlierVars, groupVars, xpathVars, scrollVars, lifeVars>>

Steps == 1..NumSteps

\* The kinds of error a step can end with.
ErrorKinds == {"StepVerificationFailed", "InteractionError", "TimeoutError", "ElementNotFound"}

\* What the step executor (resolve + primitive action) can do in one call.
ExecOutcomes == {"ok", "InteractionError", "TimeoutError", "ElementNotFound"}

\* What one call of the verification method can give.
VerifyOutcomes == {"true", "false", "timeout"}

(***************************************************************************)
(* Part I - _execute_with_verification_and_retry                           *)
(***************************************************************************)

\* `for attempt in range(self.max_retries)`: the loop body runs for attempt a.
LoopCondOffByOne(a, n) == a <= n
LoopCond(a, n) == a < n

\* `if attempt < self.max_retries - 1`: another attempt follows this failure.
ShouldRetryAlways(a, n) == TRUE
ShouldRetry(a, n) == a < n - 1

\* `if verification_passed`
VerificationPassedLenient(v) == v # "timeout"
VerificationPassed(v) == v = "true"

\* What leaves the function when the handler is at the last attempt: `raise e`.
SwallowLast(e) == "ok"
RaiseLast(e) == e

\* The driver starts step i only when it is at step i and no step is running.
CanStartEager(i) == stepState[i] = "pending"
CanStart(i) == i = cur /\ pc = "next"

\* The run's overall result from the recorded step results.
RunSuccessOf(res) ==
    IF \E i \in Steps : required[i] /\ res[i] \in ErrorKinds THEN "false" ELSE "true"

\* The driver's move after a step ended with result r: record it, then go on
\* or stop according to the policy.
StepEnds(r, f, e) ==
    /\ failedWith' = [failedWith EXCEPT
                         ![cur] = IF f >= 1 /\ f = attempts THEN e ELSE "none"]
    /\ stepResult' = [stepResult EXCEPT ![cur] = r]
    /\ stepState' = [stepState EXCEPT ![cur] = IF r \in ErrorKinds THEN "failed" ELSE "done"]
    /\ aborted' = (aborted \/ (r \in ErrorKinds /\ policy = "abort"))
    /\ cur' = cur + 1
    /\ pc' = "next"

\* The `except Exception as e` handler, entered with exception e.
ExceptHandler(e) ==
    /\ failures' = failures + 1
    /\ lastErr' = e
    /\ IF ShouldRetry(attempt, max_retries)
       THEN /\ pending' = e
            /\ pc' = "sleep"
            /\ UNCHANGED <<stepResult, stepState, aborted, cur, failedWith>>
       ELSE /\ pending' = "none"
            /\ StepEnds(RaiseLast(e), failures + 1, e)

ExecInit ==
    /\ max_retries \in 0..MaxRetries
    /\ verification_method \in [Steps -> BOOLEAN]
    /\ required \in [Steps -> BOOLEAN]
    /\ policy \in {"abort", "continue"}
    /\ pc = "start"
    /\ cur = 1
    /\ attempt = 0
    /\ pending = "none"
    /\ mappingFresh = FALSE
    /\ stepState = [i \in Steps |-> "pending"]
    /\ stepResult = [i \in Steps |-> "unset"]
    /\ aborted = FALSE
    /\ runSuccess = "unset"
    /\ cancelRequested = FALSE
    /\ attempts = 0
    /\ actions = 0
    /\ acted = FALSE
    /\ verdict = "none"
    /\ onlyFalse = TRUE
    /\ usedStale = FALSE
    /\ failures = 0
    /\ lastErr = "none"
    /\ failedWith = [i \in Steps |-> "none"]
    /\ startedAfterCancel = FALSE

\* Runtime flow 1-2: load the workflow and navigate to the page.
Navigate ==
    /\ pc = "start"
    /\ pc' = "map"
    /\ UNCHANGED <<cfgVars, cur, attempt, pending, mappingFresh, stepState, stepResult,
                   aborted, runSuccess, cancelRequested, attempts, actions, acted,
                   verdict, onlyFalse, usedStale, failures, lastErr, failedWith,
                   startedAfterCancel>>
    /\ UNCHANGED notExecVars

\* Runtime flow 3: extract the semantic mapping of the page.
ExtractMapping ==
    /\ pc = "map"
    /\ mappingFresh' = TRUE
    /\ pc' = "next"
    /\ UNCHANGED <<cfgVars, cur, attempt, pending, stepState, stepResult,
                   aborted, runSuccess, cancelRequested, attempts, actions, acted,
                   verdict, onlyFalse, usedStale, failures, lastErr, failedWith,
                   startedAfterCancel>>
    /\ UNCHANGED notExecVars

\* Runtime flow 4: the driver takes the next step and enters the retry loop.
StartStep ==
    \E i \in Steps :
        /\ CanStart(i)
        /\ ~aborted
        /\ stepState[i] = "pending"
        /\ stepState' = [stepState EXCEPT ![i] = "active"]
        /\ attempt' = 0
        /\ attempts' = 0
        /\ actions' = 0
        /\ failures' = 0
        /\ lastErr' = "none"
        /\ acted' = FALSE
        /\ verdict' = "none"
        /\ onlyFalse' = TRUE
        /\ startedAfterCancel' = (startedAfterCancel \/ cancelRequested)
        /\ pc' = "loop"
        /\ UNCHANGED <<cfgVars, cur, pending, mappingFresh, stepResult, aborted,
                       runSuccess, cancelRequested, usedStale, failedWith>>
        /\ UNCHANGED notExecVars

\* The head of `for attempt in range(self.max_retries)`: either the body is
\* entered, or the loop is over and the function ends without return statement.
LoopHead ==
    /\ pc = "loop"
    /\ IF LoopCond(attempt, max_retries)
       THEN /\ pc' = "exec"
            /\ attempts' = attempts + 1
            /\ acted' = FALSE
            /\ verdict' = "none"
            /\ startedAfterCancel' = (startedAfterCancel \/ cancelRequested)
            /\ UNCHANGED <<stepResult, stepState, aborted, cur, failedWith>>
       ELSE /\ StepEnds("none", failures, lastErr)
            /\ UNCHANGED <<attempts, acted, verdict, startedAfterCancel>>
    /\ UNCHANGED <<cfgVars, attempt, pending, mappingFresh, runSuccess, cancelRequested,
                   actions, onlyFalse, usedStale, failures, lastErr>>
    /\ UNCHANGED notExecVars

\* `result = await step_executor()`: find the element by target_text in the
\* current mapping and perform the primitive action with the resolved selector.
\* Resolution may fail or time out before the action; the action may throw.
ExecuteStep ==
    /\ pc = "exec"
    /\ \E o \in ExecOutcomes :
        LET performed == o \in {"ok", "InteractionError"} IN
        /\ acted' = performed
        /\ actions' = IF performed THEN actions + 1 ELSE actions
        /\ usedStale' = (usedStale \/ (performed /\ ~mappingFresh))
        /\ mappingFresh' = IF performed THEN FALSE ELSE mappingFresh
        /\ IF o = "ok"
           THEN /\ pc' = "verify"
                /\ UNCHANGED <<pending, stepResult, stepState, aborted, cur,
                               failures, lastErr, failedWith, onlyFalse>>
           ELSE /\ onlyFalse' = FALSE
                /\ ExceptHandler(o)
    /\ UNCHANGED <<cfgVars, attempt, runSuccess, cancelRequested, attempts, verdict,
                   startedAfterCancel>>
    /\ UNCHANGED notExecVars

\* `if verification_method: ... else: return result`
VerifyStep ==
    /\ pc = "verify"
    /\ IF verification_method[cur]
       THEN \E v \in VerifyOutcomes :
              /\ verdict' = v
              /\ IF v = "timeout"
                 THEN /\ onlyFalse' = FALSE
                      /\ ExceptHandler("TimeoutError")
                 ELSE IF VerificationPassed(v)
                 THEN /\ onlyFalse' = (onlyFalse /\ v = "false")
                      /\ StepEnds("ok", failures, lastErr)
                      /\ UNCHANGED <<pending, failures, lastErr>>
                 ELSE \* the raise of line 691 is caught by the handler below it
                      /\ UNCHANGED onlyFalse
                      /\ ExceptHandler("StepVerificationFailed")
       ELSE /\ onlyFalse' = FALSE
            /\ StepEnds("ok", failures, lastErr)
            /\ UNCHANGED <<verdict, pending, failures, lastErr>>
    /\ UNCHANGED <<cfgVars, attempt, mappingFresh, runSuccess, cancelRequested, attempts,
                   actions, acted, usedStale, startedAfterCancel>>
    /\ UNCHANGED notExecVars

\* `await asyncio.sleep(1)`
Backoff ==
    /\ pc = "sleep"
    /\ pc' = "refresh"
    /\ UNCHANGED <<cfgVars, cur, attempt, pending, mappingFresh, stepState, stepResult,
                   aborted, runSuccess, cancelRequested, attempts, actions, acted,
                   verdict, onlyFalse, usedStale, failures, lastErr, failedWith,
                   startedAfterCancel>>
    /\ UNCHANGED notExecVars

\* `await self._refresh_semantic_mapping(); continue`
RefreshMapping ==
    /\ pc = "refresh"
    /\ mappingFresh' = TRUE
    /\ pending' = "none"
    /\ attempt' = attempt + 1
    /\ pc' = "loop"
    /\ UNCHANGED <<cfgVars, cur, stepState, stepResult,
                   aborted, runSuccess, cancelRequested, attempts, actions, acted,
                   verdict, onlyFalse, usedStale, failures, lastErr, failedWith,
                   startedAfterCancel>>
    /\ UNCHANGED notExecVars

\* The driver ends the run: after the last step, or after a failed step under
\* the abort policy; it aggregates the recorded step results.
FinishRun ==
    /\ pc = "next"
    /\ (cur > NumSteps \/ aborted)
    /\ runSuccess' = RunSuccessOf(stepResult)
    /\ pc' = "finished"
    /\ UNCHANGED <<cfgVars, cur, attempt, pending, mappingFresh, stepState, stepResult,
                   aborted, cancelRequested, attempts, actions, acted,
                   verdict, onlyFalse, usedStale, failures, lastErr, failedWith,
                   startedAfterCancel>>
    /\ UNCHANGED notExecVars

\* The caller requests cancellation of the run, at any moment of the run.
RequestCancel ==
    /\ pc # "finished"
    /\ ~cancelRequested
    /\ cancelRequested' = TRUE
    /\ UNCHANGED <<cfgVars, pc, cur, attempt, pending, mappingFresh, stepState,
                   stepResult, aborted, runSuccess, attempts, actions, acted,
                   verdict, onlyFalse, usedStale, failures, lastErr, failedWith,
                   startedAfterCancel>>
    /\ UNCHANGED notExecVars

(***************************************************************************)
(* Part II - texts                                                         *)
(*                                                                         *)
(* A text is a sequence of characters (strings of length one), so that     *)
(* lower(), strip(), split(), `in` and concatenation are computed.         *)
(***************************************************************************)

Str1(a) == <<a>>
Empty == <<>>

\* str.lower(), one character
LowerChar(c) ==
    CASE c = "A" -> "a"
      [] c = "B" -> "b"
      [] c = "C" -> "c"
      [] OTHER -> c

\* str.lower()
Lower(t) == [i \in 1..Len(t) |-> LowerChar(t[i])]

RECURSIVE LStrip(_)
LStrip(t) == IF t = <<>> \/ t[1] # " " THEN t ELSE LStrip(Tail(t))

RECURSIVE RStrip(_)
RStrip(t) == IF t = <<>> \/ t[Len(t)] # " " THEN t ELSE RStrip(SubSeq(t, 1, Len(t) - 1))

\* str.strip()
Strip(t) == RStrip(LStrip(t))

\* set(str.split()): the maximal runs of characters that are not blanks
Words(t) ==
    {SubSeq(t, i, j) : <<i, j>> \in
        {ij \in (1..Len(t)) \X (1..Len(t)) :
            /\ ij[1] <= ij[2]
            /\ \A k \in ij[1]..ij[2] : t[k] # " "
            /\ (ij[1] = 1 \/ t[ij[1] - 1] = " ")
            /\ (ij[2] = Len(t) \/ t[ij[2] + 1] = " ")}}

\* `a in b` of two strings
Contains(a, b) == \E i \in 0..(Len(b) - Len(a)) : SubSeq(b, i + 1, i + Len(a)) = a

Max2(x, y) == IF x >= y THEN x ELSE y
MinOf(S) == CHOOSE x \in S : \A y \in S : x <= y

\* the decimal digit of a small number
Digit(n) == <<"1", "2", "3", "4", "5", "6", "7", "8", "9">>[n]

(***************************************************************************)
(* Part II - pages and the semantic mapper                                 *)
(***************************************************************************)

\* The interactive elements pages are made of: the text the extractor gives
\* for the element, the text of its container, its id and its name.
Elem(t, c, i, n) == [text |-> t, container |-> c, id |-> i, name |-> n]

Elems ==
    { Elem(<<"a">>, <<"p">>, Empty, Empty),
      Elem(<<"a">>, <<"q">>, Empty, Empty),
      Elem(<<"a">>, Empty, Empty, Empty),
      Elem(<<"A">>, <<"p">>, Empty, Empty),
      Elem(<<"a", " ", "b">>, <<"p">>, <<"c">>, Empty),
      Elem(<<"c", " ", "b">>, Empty, Empty, <<"b">>),
      Elem(Empty, <<"q">>, <<"b">>, Empty) }

Pages == UNION {[1..n -> Elems] : n \in 0..MaxElems}

\* A descriptor: the key it is stored under, the element it stands for (its
\* selectors), and the disambiguation context stored with it.
Descriptor(k, e, c, pos) == [text |-> k, el |-> e, container |-> c, position |-> pos]
None == Descriptor(Empty, 0, Empty, Empty)

\* the elements of the page with the same raw text as element i
SameText(pg, i) == {j \in 1..Len(pg) : pg[j].text = pg[i].text}

\* "item k of n": the place of element i among the elements with its raw text
PositionContext(pg, i) ==
    <<"i", "t", "e", "m", " ">> \o Str1(Digit(Cardinality({j \in SameText(pg, i) : j <= i})))
        \o <<" ", "o", "f", " ">> \o Str1(Digit(Cardinality(SameText(pg, i))))

\* the container of element i tells it apart from the others with its raw text
ContainerDistinguishes(pg, i) ==
    /\ pg[i].container # Empty
    /\ \A j \in SameText(pg, i) \ {i} : pg[j].container # pg[i].container

\* The key of element i without duplicate handling: its raw text.
RawKeyOf(pg, i) == pg[i].text

\* The key of element i: its raw text, augmented on collision with
\* " (in <container>)" or " (<position>)".
KeyOf(pg, i) ==
    IF Cardinality(SameText(pg, i)) = 1
    THEN pg[i].text
    ELSE IF ContainerDistinguishes(pg, i)
    THEN pg[i].text \o <<" ", "(", "i", "n", " ">> \o pg[i].container \o <<")">>
    ELSE pg[i].text \o <<" ", "(">> \o PositionContext(pg, i) \o <<")">>

\* the descriptor the mapper builds for element i
DescriptorOf(pg, i) ==
    Descriptor(KeyOf(pg, i), i, pg[i].container,
               IF Cardinality(SameText(pg, i)) = 1 THEN Empty ELSE PositionContext(pg, i))

\* mapping[key] = descriptor: of a dictionary kept in insertion order
Insert(m, d) ==
    IF \E k \in 1..Len(m) : m[k].text = d.text
    THEN [k \in 1..Len(m) |-> IF m[k].text = d.text THEN d ELSE m[k]]
    ELSE Append(m, d)

\* One mapping pass: every element with non-empty text is inserted under its
\* key, in document order; elements without text are skipped.
RECURSIVE BuildFrom(_, _, _)
BuildFrom(pg, i, m) ==
    IF i > Len(pg) THEN m
    ELSE IF pg[i].text = Empty THEN BuildFrom(pg, i + 1, m)
    ELSE BuildFrom(pg, i + 1, Insert(m, DescriptorOf(pg, i)))

buildMapping(pg) == BuildFrom(pg, 1, <<>>)

\* the keys of a mapping, in insertion order
KeyList(m) == [k \in 1..Len(m) |-> m[k].text]

NoResolution == [status |-> "none", descriptor |-> None, keys |-> <<>>]

\* a step without container_hint and without position_hint
NoHints == [container |-> Empty, position |-> Empty]

\* Part II at rest (while Part I runs), and Part I at rest (while Part II runs)
ResIdle ==
    /\ page = <<>>
    /\ mapping = <<>>
    /\ target_text = Empty
    /\ resolution = NoResolution
    /\ rpc = "idle"
    /\ hints = NoHints
    /\ recorded = 0

ExecIdle ==
    /\ max_retries = 0
    /\ verification_method = [i \in Steps |-> FALSE]
    /\ required = [i \in Steps |-> FALSE]
    /\ policy = "abort"
    /\ pc = "idle"
    /\ cur = 1
    /\ attempt = 0
    /\ pending = "none"
    /\ mappingFresh = FALSE
    /\ stepState = [i \in Steps |-> "pending"]
    /\ stepResult = [i \in Steps |-> "unset"]
    /\ aborted = FALSE
    /\ runSuccess = "unset"
    /\ cancelRequested = FALSE
    /\ attempts = 0
    /\ actions = 0
    /\ acted = FALSE
    /\ verdict = "none"
    /\ onlyFalse = TRUE
    /\ usedStale = FALSE
    /\ failures = 0
    /\ lastErr = "none"
    /\ failedWith = [i \in Steps |-> "none"]
    /\ startedAfterCancel = FALSE

\* Part III at rest
ScoreIdle ==
    /\ textA = Empty
    /\ textB = Empty
    /\ scoreAB = -1
    /\ scoreBA = -1
    /\ spc = "idle"

\* the radio groups of the form, and the inputs of a group in document order
Groups == {"gender", "status"}
Options == 1..NumOptions

\* no input of any group checked
NoneChecked == [g \in Groups |-> [o \in Options |-> FALSE]]

\* Part IV at rest
RadioIdle ==
    /\ checked = NoneChecked
    /\ beforeChecked = NoneChecked
    /\ selGroup = "gender"
    /\ selOption = 0
    /\ rapc = "idle"

\* the fields of semanticInfo the converter reads, in the order it reads them
SemanticFields == <<"labelText", "placeholder", "ariaLabel", "textContent", "name", "id">>

\* a recorded step with every text empty
EmptyStep ==
    [targetText |-> Empty, elementText |-> Empty,
     semanticInfo |-> [f \in {SemanticFields[k] : k \in 1..Len(SemanticFields)} |-> Empty]]

\* the converter's return value: no text, or the text t
NoText == [found |-> FALSE, text |-> Empty]
Text(t) == [found |-> TRUE, text |-> t]

\* Part V at rest
ConvIdle ==
    /\ step = EmptyStep
    /\ converted = NoText
    /\ cpc = "idle"

\* a label, sibling or other element beside the target: absent, or with its text
Absent == [present |-> FALSE, text |-> Empty, heading |-> FALSE]
Beside(t, h) == [present |-> TRUE, text |-> t, heading |-> h]

\* An element with what surrounds it in the document:
\*   kind        "text" | "password" | "select" | "button" | "submit" | "div" |
\*               "radio" | "checkbox" | "roleradio" (a button with role="radio")
\*   id .. ariaLabel   its attributes; ownText its textContent
\*   labelFor    the label[for=id] of the document
\*   parentLabel its parent element is a <label>; parentOwn the text node the
\*               parent starts with
\*   prev, next  its previous and next element sibling (prev may be a heading)
\*   legend      the legend of the fieldset around its parent (empty: no fieldset)
\*   labelledBy  the text of the element its aria-labelledby refers to
\*   visible     isElementVisible
Element(k, i, n, v, ph, ti, al, own, lf, pl, po, pv, nx, lg, lb, vis) ==
    [kind |-> k, id |-> i, name |-> n, value |-> v, placeholder |-> ph, title |-> ti,
     ariaLabel |-> al, ownText |-> own, labelFor |-> lf, parentLabel |-> pl,
     parentOwn |-> po, prev |-> pv, next |-> nx, legend |-> lg, labelledBy |-> lb,
     visible |-> vis]

NoElement ==
    Element("div", Empty, Empty, Empty, Empty, Empty, Empty, Empty, Absent, FALSE,
            Empty, Absent, Absent, Empty, Empty, TRUE)

\* what extractSemanticInfo returns
SemanticInfo(lt, tc, ph, ti, al, v, n, i) ==
    [labelText |-> lt, textContent |-> tc, placeholder |-> ph, title |-> ti,
     ariaLabel |-> al, value |-> v, name |-> n, id |-> i]

NoInfo == SemanticInfo(Empty, Empty, Empty, Empty, Empty, Empty, Empty, Empty)

\* a message to the background script: its type and, of its payload, the
\* targetText (if the payload has one), the key, the semanticInfo and the
\* value (empty where the payload has none)
Message(ty, has, tt, k, info) ==
    [type |-> ty, hasTargetText |-> has, targetText |-> tt, key |-> k, semanticInfo |-> info,
     value |-> Empty]

NoMessage == Message("none", FALSE, Empty, Empty, NoInfo)

\* Part VI at rest
\* no key has gone down
NoPress == [key |-> "", ctrlOrMeta |-> FALSE]

RecIdle ==
    /\ element = NoElement
    /\ message = NoMessage
    /\ epc = "idle"
    /\ pressed = NoPress

\* the _radioButtonInfo of an element: none stored yet
NoGroupInfo == [fieldName |-> Empty, optionValue |-> Empty, allOptions |-> <<>>]

\* Part VII at rest
GroupIdle ==
    /\ radios = <<>>
    /\ picked = 0
    /\ radioButtonInfo = NoGroupInfo
    /\ gpc = "idle"

\* the result of getXPath: none yet, the steps of a path, or a TypeError
NoPath == [status |-> "none", steps |-> <<>>]
Path(steps) == [status |-> "path", steps |-> steps]
TypeError == [status |-> "TypeError", steps |-> <<>>]

\* a document without elements
NoDocument == [parent |-> <<>>, tag |-> <<>>, id |-> <<>>]

\* Part VIII at rest
XPathIdle ==
    /\ dom = NoDocument
    /\ target = 0
    /\ xpath = NoPath
    /\ xpc = "idle"

\* an event of rrweb: its number, its source and, of a scroll event, x and y
Event(k, src, x, y) == [id |-> k, source |-> src, x |-> x, y |-> y]
NoEvent == Event(0, "none", 0, 0)

\* scrollTimeout: null, or a timer that will send event ev in ms milliseconds
NoTimer == [pending |-> FALSE, event |-> NoEvent, remaining |-> 0]
Unarmed(ev, ms) == NoTimer
Timer(ev, ms) == [pending |-> TRUE, event |-> ev, remaining |-> ms]

\* Part IX at rest: no recorder has been started
NoScroll ==
    /\ scrollTimeout = NoTimer
    /\ lastScrollY = <<>>
    /\ lastDirection = "null"
    /\ sent = <<>>
    /\ emitted = 0
    /\ lastEvent = [event |-> NoEvent, direction |-> "null"]
    /\ sinceScroll = 0
    /\ cancelled = {}

ScrollIdle ==
    /\ isRecordingActive = FALSE
    /\ scrollTimeout = NoTimer
    /\ lastScrollY = <<>>
    /\ lastDirection = "null"
    /\ sent = <<>>
    /\ emitted = 0
    /\ lastEvent = [event |-> NoEvent, direction |-> "null"]
    /\ sinceScroll = 0
    /\ cancelled = {}

\* Part X at rest: no content script is loaded
LifeIdle ==
    /\ stopRecording = FALSE
    /\ listeners = FALSE
    /\ sessions = 0
    /\ started = 0
    /\ statusRequest = "idle"
    /\ handled = "none"
    /\ called = "none"
    /\ currentOverlay = FALSE
    /\ currentFocusOverlay = FALSE
    /\ hoverOverlays = 0
    /\ focusOverlays = 0

\* the timer of a request: not set, or set with ms milliseconds left, or
\* cleared, or fired
NoTimeout == [state |-> "unset", remaining |-> 0]
Timeout(st, ms) == [state |-> st, remaining |-> ms]

\* the ADD_EXTRACTION_STEP request of a click on "Add Extraction": none yet,
\* declined, in flight or answered; the goal at the click and the goal sent
Request(st, goal, sentGoal) == [state |-> st, goal |-> goal, extractionGoal |-> sentGoal]
NoRequest == Request("none", Empty, Empty)

\* Part XI at rest: no side panel is open
AskIdle ==
    /\ extractionGoal = Empty
    /\ showExtractionDialog = FALSE
    /\ request = NoRequest
    /\ responseReceived = FALSE
    /\ timeoutId = NoTimeout
    /\ alerts = <<>>
    /\ dialogClosed = FALSE
    /\ waited = 0

\* the parts after Part VI at rest
LaterIdle == GroupIdle /\ XPathIdle /\ ScrollIdle /\ LifeIdle /\ AskIdle

\* the parts up to Part VI at rest
EarlierIdle == ExecIdle /\ ResIdle /\ ScoreIdle /\ RadioIdle /\ ConvIdle /\ RecIdle

\* the parts other than Part I and Part II at rest
OthersIdle == ScoreIdle /\ RadioIdle /\ ConvIdle /\ RecIdle /\ LaterIdle

(***************************************************************************)
(* Part II - the step resolver                                             *)
(***************************************************************************)

\* the least score (in percent) a fuzzy match must exceed
ConfidenceFloor == 50

\* Strategy 1, exact text match: the first key whose lower-cased text equals
\* the lower-cased, stripped target.
exact_match(t, m) ==
    LET target_lower == Strip(Lower(t))
        hits == {k \in 1..Len(m) : Lower(m[k].text) = target_lower}
    IN  IF hits = {} THEN None ELSE m[MinOf(hits)]

\* the characters of an identifier
IdentChars == {"a", "b", "c", "p", "q", "z", "y", "A", "B", "C"}

\* the target looks like a raw id/name token: not empty, no blanks, only
\* identifier characters
looks_like_identifier(t) == t # Empty /\ \A i \in 1..Len(t) : t[i] \in IdentChars

\* Strategy 2, direct selector: `#target`, then `[name=target]`, on the page
try_direct_selector(t, pg) ==
    LET byId == {i \in 1..Len(pg) : pg[i].id = t}
        byName == {i \in 1..Len(pg) : pg[i].name = t}
    IN  IF byId # {} THEN Descriptor(pg[MinOf(byId)].text, MinOf(byId), Empty, Empty)
        ELSE IF byName # {} THEN Descriptor(pg[MinOf(byName)].text, MinOf(byName), Empty, Empty)
        ELSE None

\* substring matching: `target_lower in text_lower or text_lower in target_lower`
SubstringMatch(t, key) ==
    Contains(Strip(Lower(t)), Lower(key)) \/ Contains(Lower(key), Strip(Lower(t)))

\* word overlap scoring: overlap / max(len(target_words), len(text_words)), in percent
WordOverlapScore(t, key) ==
    LET target_words == Words(Lower(t))
        text_words == Words(Lower(key))
    IN  (100 * Cardinality(target_words \cap text_words))
            \div Max2(Cardinality(target_words), Cardinality(text_words))

\* Jaccard similarity: intersection / union if union > 0 else 0, in percent
JaccardScore(t, key) ==
    LET target_words == Words(Lower(t))
        text_words == Words(Lower(key))
        union == Cardinality(target_words \cup text_words)
    IN  IF union > 0 THEN (100 * Cardinality(target_words \cap text_words)) \div union ELSE 0

\* the one score of a key against the target
Score(t, key) ==
    IF SubstringMatch(t, key) THEN 100
    ELSE Max2(WordOverlapScore(t, key), JaccardScore(t, key))

\* Strategy 3 without the confidence floor: the best key, whatever its score.
fuzzy_match_any_score(t, m) ==
    LET best == {k \in 1..Len(m) : \A j \in 1..Len(m) : Score(t, m[k].text) >= Score(t, m[j].text)}
    IN  IF best = {} THEN None ELSE m[MinOf(best)]

\* what the fuzzy stage gives when its best candidates cannot be told apart
Ambiguous == Descriptor(Empty, -1, Empty, Empty)

\* the keys above the floor with the greatest score
TopScored(t, m) ==
    LET above == {k \in 1..Len(m) : Score(t, m[k].text) > ConfidenceFloor}
    IN  {k \in above : \A j \in above : Score(t, m[k].text) >= Score(t, m[j].text)}

\* of a set of keys, those of the least length
Shortest(m, S) == {k \in S : \A j \in S : Len(m[k].text) <= Len(m[j].text)}

\* substring matching over the mapping: the first key, in insertion order,
\* that contains the target or is contained in it is returned at once
substring_match(t, m) ==
    LET hits == {k \in 1..Len(m) : SubstringMatch(t, m[k].text)}
    IN  IF hits = {} THEN None ELSE m[MinOf(hits)]

\* Strategy 3, fuzzy matching: a substring match is returned at once;
\* otherwise the key with the greatest score above the floor, a tie of the
\* score broken by the shorter key; candidates that tie in score and in
\* length are ambiguous.
fuzzy_match_with_scoring(t, m) ==
    IF substring_match(t, m) # None THEN substring_match(t, m)
    ELSE IF TopScored(t, m) = {} THEN None
    ELSE IF Cardinality(Shortest(m, TopScored(t, m))) = 1
    THEN m[MinOf(Shortest(m, TopScored(t, m)))]
    ELSE Ambiguous

\* find_element_by_text with a last strategy that takes the best key unchecked
find_element_best_effort(t, m, pg) ==
    IF exact_match(t, m) # None THEN exact_match(t, m)
    ELSE IF looks_like_identifier(t) THEN try_direct_selector(t, pg)
    ELSE fuzzy_match_any_score(t, m)

\* find_element_by_text
find_element_by_text(t, m, pg) ==
    IF exact_match(t, m) # None THEN exact_match(t, m)
    ELSE IF looks_like_identifier(t) THEN try_direct_selector(t, pg)
    ELSE fuzzy_match_with_scoring(t, m)

\* the ElementNotFound error: it carries the keys of the mapping searched
ElementNotFound(m) ==
    [status |-> "ElementNotFound", descriptor |-> None, keys |-> KeyList(m)]

\* the AmbiguousMatch error: nothing is returned
AmbiguousMatch == [status |-> "AmbiguousMatch", descriptor |-> None, keys |-> <<>>]

\* what the caller of a resolution gets for the outcome d of the stages
Outcome(d, m) ==
    IF d = None THEN ElementNotFound(m)
    ELSE IF d = Ambiguous THEN AmbiguousMatch
    ELSE [status |-> "found", descriptor |-> d, keys |-> <<>>]

\* resolve: the descriptor found, or the error
resolve(t, m, pg) == Outcome(find_element_by_text(t, m, pg), m)

\* the stored context of descriptor d matches the hints h of a step
HintMatches(d, h) ==
    /\ h.container # Empty => d.container = h.container
    /\ h.position # Empty => d.position = h.position

\* the entries of the mapping whose stored context matches the hints
FilterByHints(m, h) == SelectSeq(m, LAMBDA d : HintMatches(d, h))

\* Context stage: with a hint present, the candidates are filtered to those
\* whose stored context matches, before scoring.
context_match(t, h, m) ==
    IF h = NoHints \/ fuzzy_match_with_scoring(t, FilterByHints(m, h)) = Ambiguous THEN None
    ELSE fuzzy_match_with_scoring(t, FilterByHints(m, h))

\* the stages in their order for a step with hints: exact, identifier,
\* context, fuzzy
find_element_with_hints(t, h, m, pg) ==
    IF exact_match(t, m) # None THEN exact_match(t, m)
    ELSE IF looks_like_identifier(t) THEN try_direct_selector(t, pg)
    ELSE IF context_match(t, h, m) # None THEN context_match(t, h, m)
    ELSE fuzzy_match_with_scoring(t, m)

\* resolve(targetText, hints, mapping)
resolve_with_hints(t, h, m, pg) == Outcome(find_element_with_hints(t, h, m, pg), m)

\* The hints a recording on element i of the page carries: the container it
\* was in, or its place among the elements with its text.
HintsOf(pg, i) ==
    {h \in { [container |-> pg[i].container, position |-> Empty],
             [container |-> Empty, position |-> PositionContext(pg, i)] } : h # NoHints}

\* the target texts of the steps that are resolved
Targets ==
    { <<"a">>, <<"A", " ">>, <<"b">>, <<"c">>, <<"b", " ", "a">>, <<"z">>, <<"z", " ", "y">>,
      <<"a", " ", "(", "i", "n", " ", "p", ")">>, <<"b", " ", "c", " ", "a">> }

ResolveInit ==
    /\ ExecIdle
    /\ OthersIdle
    /\ page \in Pages
    /\ mapping = <<>>
    /\ target_text = Empty
    /\ resolution = NoResolution
    /\ rpc = "scan"
    /\ hints = NoHints
    /\ recorded = 0

\* one mapping pass over the current page
ScanPage ==
    /\ rpc = "scan"
    /\ mapping' = buildMapping(page)
    /\ rpc' = "ready"
    /\ UNCHANGED <<page, target_text, resolution, hints, recorded>>
    /\ UNCHANGED notResVars

\* a step's target text is resolved against the mapping of the last pass
ResolveStep ==
    /\ rpc = "ready"
    /\ \E t \in Targets :
        /\ target_text' = t
        /\ resolution' = resolve(t, mapping, page)
    /\ hints' = NoHints
    /\ recorded' = 0
    /\ rpc' = "resolved"
    /\ UNCHANGED <<page, mapping>>
    /\ UNCHANGED notResVars

\* a step recorded on one of several elements with the same text is resolved:
\* its target text is the raw text or the key, and it carries a hint
ResolveHintedStep ==
    /\ rpc = "ready"
    /\ \E i \in 1..Len(page) :
        /\ page[i].text # Empty
        /\ Cardinality(SameText(page, i)) > 1
        /\ \E t \in {page[i].text, KeyOf(page, i)} : \E h \in HintsOf(page, i) :
            /\ target_text' = t
            /\ hints' = h
            /\ recorded' = i
            /\ resolution' = resolve_with_hints(t, h, mapping, page)
    /\ rpc' = "resolved"
    /\ UNCHANGED <<page, mapping>>
    /\ UNCHANGED notResVars

\* the page changes (an element appears or the last one goes); the mapping
\* and what was resolved against it are discarded, and a new pass follows
PageMutates ==
    /\ rpc = "resolved"
    /\ \/ \E e \in Elems : Len(page) < MaxElems /\ page' = Append(page, e)
       \/ Len(page) > 0 /\ page' = SubSeq(page, 1, Len(page) - 1)
    /\ mapping' = <<>>
    /\ target_text' = Empty
    /\ resolution' = NoResolution
    /\ hints' = NoHints
    /\ recorded' = 0
    /\ rpc' = "scan"
    /\ UNCHANGED notResVars

ResolveNext ==
    \/ ScanPage
    \/ ResolveStep
    \/ ResolveHintedStep
    \/ PageMutates

ResolveSpec == ResolveInit /\ [][ResolveNext]_vars

Init == ExecInit /\ ResIdle /\ OthersIdle

Next ==
    \/ Navigate
    \/ ExtractMapping
    \/ StartStep
    \/ LoopHead
    \/ ExecuteStep
    \/ VerifyStep
    \/ Backoff
    \/ RefreshMapping
    \/ FinishRun
    \/ RequestCancel

Spec == Init /\ [][Next]_vars

(***************************************************************************)
(* Part III - the fuzzy score of one text against another                  *)
(***************************************************************************)

\* the characters texts are made of
TextChars == {"a", "b", " "}

\* the texts of at most MaxTextLen characters
Texts == UNION {[1..n -> TextChars] : n \in 0..MaxTextLen}

ScoreInit ==
    /\ ExecIdle
    /\ ResIdle
    /\ RadioIdle
    /\ ConvIdle
    /\ RecIdle
    /\ LaterIdle
    /\ textA \in Texts
    /\ textB \in Texts
    /\ scoreAB = -1
    /\ scoreBA = -1
    /\ spc = "texts"

\* each text is scored as the target against the other as the mapping key
ScoreTexts ==
    /\ spc = "texts"
    /\ scoreAB' = Score(textA, textB)
    /\ scoreBA' = Score(textB, textA)
    /\ spc' = "scored"
    /\ UNCHANGED <<textA, textB>>
    /\ UNCHANGED notScoreVars

ScoreNext == ScoreTexts

ScoreSpec == ScoreInit /\ [][ScoreNext]_vars

(***************************************************************************)
(* Part IV - selecting a radio option                                      *)
(***************************************************************************)

\* the value attribute of the o-th input of a group
ValueOf(o) == NumOptions + 1 - o

\* the group selector alone: the first input of the group
LocateByGroupSelector(v) == 1

\* the input of the group whose value is optionValue v
LocateOption(v) == CHOOSE o \in Options : ValueOf(o) = v

\* the checked state of input i is set; the browser leaves no other radio
\* of the group checked
SetChecked(grp, i) == [o \in Options |-> o = i]

\* _handle_radio_checkbox_input for a radio: the option is located by its
\* optionValue and its checked state is set directly
handle_radio_input(grp, v) == SetChecked(grp, LocateOption(v))

RadioInit ==
    /\ ExecIdle
    /\ ResIdle
    /\ ScoreIdle
    /\ ConvIdle
    /\ RecIdle
    /\ LaterIdle
    /\ checked \in [Groups -> {c \in [Options -> BOOLEAN] :
                                  Cardinality({o \in Options : c[o]}) <= 1}]
    /\ beforeChecked = checked
    /\ selGroup = "gender"
    /\ selOption = 0
    /\ rapc = "form"

\* a radio step selects optionValue v of group g
SelectRadio ==
    /\ \E g \in Groups : \E v \in Options :
        /\ selGroup' = g
        /\ selOption' = v
        /\ checked' = [checked EXCEPT ![g] = handle_radio_input(checked[g], v)]
    /\ beforeChecked' = checked
    /\ rapc' = "selected"
    /\ UNCHANGED notRadioVars

RadioNext == SelectRadio

RadioSpec == RadioInit /\ [][RadioNext]_vars

(***************************************************************************)
(* Part V - the converter: _extract_semantic_target_text                   *)
(***************************************************************************)

\* a candidate is accepted only if it is shorter than this
LengthCap == 100

\* the text of n characters ch
Rep(ch, n) == [i \in 1..n |-> ch]

\* the first field of semanticInfo, from the k-th on, whose stripped value
\* is not empty and is shorter than the cap
RECURSIVE FirstSemanticField(_, _)
FirstSemanticField(semantic_info, k) ==
    IF k > Len(SemanticFields) THEN NoText
    ELSE IF Strip(semantic_info[SemanticFields[k]]) # Empty
            /\ Len(Strip(semantic_info[SemanticFields[k]])) < LengthCap
    THEN Text(Strip(semantic_info[SemanticFields[k]]))
    ELSE FirstSemanticField(semantic_info, k + 1)

\* _extract_semantic_target_text: a targetText that is not the empty string
\* is returned stripped; otherwise the fields of semanticInfo are tried
_extract_semantic_target_text(st) ==
    IF st.targetText # Empty THEN Text(Strip(st.targetText))
    ELSE FirstSemanticField(st.semanticInfo, 1)

\* the recorded steps that are converted
RecordedSteps ==
    { [targetText |-> tt, elementText |-> et,
       semanticInfo |-> [labelText |-> lt, placeholder |-> ph, ariaLabel |-> al,
                         textContent |-> tc, name |-> nm, id |-> i]] :
        tt \in {Empty, <<" ">>, <<"t">>, Rep("t", LengthCap - 1), Rep("t", LengthCap)},
        et \in {Empty, <<"e">>},
        lt \in {Empty, <<" ", "l">>, Rep("l", LengthCap)},
        ph \in {Empty, <<"p">>, Rep("p", LengthCap)},
        al \in {Empty, <<"r">>},
        tc \in {Empty, <<"c">>},
        nm \in {Empty, <<"n">>},
        i \in {Empty, <<"i">>} }

ConvInit ==
    /\ ExecIdle
    /\ ResIdle
    /\ ScoreIdle
    /\ RadioIdle
    /\ RecIdle
    /\ LaterIdle
    /\ step \in RecordedSteps
    /\ converted = NoText
    /\ cpc = "recorded"

\* the recorded step is converted
Convert ==
    /\ cpc = "recorded"
    /\ converted' = _extract_semantic_target_text(step)
    /\ cpc' = "converted"
    /\ UNCHANGED step
    /\ UNCHANGED notConvVars

ConvNext == Convert

ConvSpec == ConvInit /\ [][ConvNext]_vars

(***************************************************************************)
(* Part VI - the recorder: extractSemanticInfo and the event handlers      *)
(***************************************************************************)

\* lengths the extractor compares texts with
SiblingOptionMin == 1
SiblingOptionCap == 50
ValueOptionCap == 30
LabelTextMin == 2
LabelTextCap == 100
ParentTextCap == 200
TextContentCap == 200

\* a || b || ... of texts: the first that is not empty
FirstNonEmpty(ts) ==
    IF \A k \in 1..Len(ts) : ts[k] = Empty THEN Empty
    ELSE ts[MinOf({k \in 1..Len(ts) : ts[k] # Empty})]

\* s.replace(sub, ''): the first occurrence of sub is taken out of s
ReplaceFirst(s, sub) ==
    LET at == {i \in 1..(Len(s) - Len(sub) + 1) : SubSeq(s, i, i + Len(sub) - 1) = sub}
    IN  IF sub = Empty \/ at = {} THEN s
        ELSE SubSeq(s, 1, MinOf(at) - 1) \o SubSeq(s, MinOf(at) + Len(sub), Len(s))

\* s.slice(0, n)
Slice(s, n) == IF Len(s) <= n THEN s ELSE SubSeq(s, 1, n)

\* element.tagName.toLowerCase(), element.type, element.getAttribute('role')
tagName(e) ==
    CASE e.kind \in {"text", "password", "submit", "radio", "checkbox"} -> "input"
      [] e.kind \in {"button", "roleradio"} -> "button"
      [] e.kind = "select" -> "select"
      [] OTHER -> "div"

elementType(e) ==
    CASE e.kind \in {"text", "password", "radio", "checkbox", "submit"} -> e.kind
      [] e.kind \in {"button", "roleradio"} -> "submit"
      [] e.kind = "select" -> "select-one"
      [] OTHER -> ""

role(e) == IF e.kind = "roleradio" THEN "radio" ELSE ""

\* parent.textContent: the texts under the parent in document order
parentTextContent(e) == e.parentOwn \o e.prev.text \o e.ownText \o e.next.text

\* the branch for radio buttons and checkboxes is taken
IsGroupedControl(e) ==
    \/ tagName(e) = "input" /\ elementType(e) \in {"radio", "checkbox"}
    \/ tagName(e) = "button" /\ role(e) = "radio"

\* the element is a button
IsButton(e) ==
    \/ tagName(e) = "button"
    \/ tagName(e) = "input" /\ elementType(e) \in {"button", "submit"}

\* label[for=id] with its text left as it is
AssociatedLabelRaw(e) ==
    IF e.id # Empty /\ e.labelFor.present THEN e.labelFor.text ELSE Empty

\* Strategy 1: the trimmed text of label[for=id]
AssociatedLabel(e) ==
    IF e.id # Empty /\ e.labelFor.present THEN Strip(e.labelFor.text) ELSE Empty

\* the trimmed text of the parent when the parent is a label
ParentLabelText(e) == IF e.parentLabel THEN Strip(parentTextContent(e)) ELSE Empty

\* a sibling whose text can be the option of a radio button or checkbox
OptionSibling(sib) ==
    /\ sib.present
    /\ Strip(sib.text) # Empty
    /\ Len(Strip(sib.text)) < SiblingOptionCap
    /\ Len(Strip(sib.text)) > SiblingOptionMin

\* Strategy 3 of the option: the next sibling, then the previous sibling
SiblingOption(e) ==
    IF OptionSibling(e.next) THEN Strip(e.next.text)
    ELSE IF OptionSibling(e.prev) THEN Strip(e.prev.text)
    ELSE Empty

\* Strategy 4 of the option: the value attribute of a radio button
ValueOption(e) ==
    IF elementType(e) = "radio" /\ e.value # Empty /\ Len(e.value) < ValueOptionCap
    THEN e.value ELSE Empty

optionValue(e) ==
    FirstNonEmpty(<<AssociatedLabel(e), ParentLabelText(e), SiblingOption(e), ValueOption(e)>>)

\* the label text lt belongs to no radio button of the container: it
\* includes neither the value nor the closest label's text of the radio
isGeneralLabel(e, lt) == ~(Contains(e.value, lt) \/ Contains(ParentLabelText(e), lt))

\* the group label found in the parent: a heading before the element
GroupLabel(e) ==
    IF /\ e.prev.present /\ e.prev.heading
       /\ Strip(e.prev.text) # Empty
       /\ Len(Strip(e.prev.text)) > LabelTextMin
       /\ Len(Strip(e.prev.text)) < LabelTextCap
       /\ isGeneralLabel(e, Strip(e.prev.text))
    THEN Strip(e.prev.text) ELSE Empty

\* the field name of a radio button: a group label in the parent, else the
\* legend of the fieldset around it
fieldName(e) ==
    IF elementType(e) # "radio" THEN Empty
    ELSE IF GroupLabel(e) # Empty THEN GroupLabel(e)
    ELSE Strip(e.legend)

\* the option alone as the label
OptionAlone(e) == optionValue(e)

\* "fieldName: optionValue", or the one of the two that is there
CombinedLabel(e) ==
    IF fieldName(e) # Empty /\ optionValue(e) # Empty
    THEN fieldName(e) \o <<":", " ">> \o optionValue(e)
    ELSE IF optionValue(e) # Empty THEN optionValue(e)
    ELSE fieldName(e)

\* fallback of the grouped controls: the text of the parent
ParentFallback(e) ==
    LET parentText == Strip(parentTextContent(e))
    IN  IF /\ parentText # Empty /\ Len(parentText) < LabelTextCap
           /\ Len(parentText) > SiblingOptionMin /\ Len(parentText) < SiblingOptionCap
        THEN parentText ELSE Empty

\* a button's label: its own text, then aria-label, value, title
ButtonLabel(e) == FirstNonEmpty(<<Strip(e.ownText), e.ariaLabel, e.value, e.title>>)

\* Strategy 1 and 2: label[for=id], then a label above the element
LabelledText(e) == FirstNonEmpty(<<AssociatedLabel(e), ParentLabelText(e)>>)

\* Strategy 3: the text of the parent without the element's own text
ContainerText(e) ==
    LET parentText == Strip(parentTextContent(e))
        elementOwnText == Strip(FirstNonEmpty(<<e.value, e.placeholder, e.ownText>>))
        cleanedText == IF elementOwnText # Empty
                       THEN Strip(ReplaceFirst(parentText, elementOwnText))
                       ELSE parentText
    IN  IF parentText # Empty /\ parentText # elementOwnText /\ Len(parentText) < ParentTextCap
        THEN IF cleanedText # Empty /\ Len(cleanedText) > LabelTextMin THEN cleanedText
             ELSE IF Len(parentText) < LabelTextCap THEN parentText
             ELSE Empty
        ELSE Empty

\* Strategy 4: the text of the previous sibling
PrecedingText(e) ==
    IF /\ e.prev.present
       /\ Strip(e.prev.text) # Empty
       /\ Len(Strip(e.prev.text)) < LabelTextCap
       /\ Len(Strip(e.prev.text)) > LabelTextMin
    THEN Strip(e.prev.text) ELSE Empty

\* Strategy 5: the text of the element aria-labelledby refers to
LabelledByText(e) == Strip(e.labelledBy)

\* the labelText of extractSemanticInfo
labelText(e) ==
    IF IsGroupedControl(e) THEN FirstNonEmpty(<<CombinedLabel(e), ParentFallback(e)>>)
    ELSE FirstNonEmpty(<<IF IsButton(e) THEN ButtonLabel(e) ELSE LabelledText(e),
                         ContainerText(e), PrecedingText(e), LabelledByText(e)>>)

extractSemanticInfo(e) ==
    SemanticInfo(labelText(e), Slice(Strip(e.ownText), TextContentCap), e.placeholder,
                 e.title, e.ariaLabel, e.value, e.name, e.id)

\* handleCustomClick: the targetText of a click
ClickTargetText(e, info) ==
    IF IsButton(e)
    THEN FirstNonEmpty(<<Strip(info.textContent), info.ariaLabel, e.value, info.title>>)
    ELSE FirstNonEmpty(<<info.labelText, info.textContent, info.placeholder,
                         info.ariaLabel, info.name, info.id>>)

\* shouldSkipClickEvent: a radio input that is not visible, or a button with
\* role="radio" and no text (an input with display none is not visible)
shouldSkipClickEvent(e, tt) ==
    \/ tagName(e) = "input" /\ elementType(e) = "radio" /\ ~e.visible
    \/ tagName(e) = "button" /\ role(e) = "radio" /\ Strip(tt) = Empty

\* handleInput: the targetText of an input event
InputTargetText(info) ==
    FirstNonEmpty(<<info.labelText, info.placeholder, info.ariaLabel, info.name, info.id>>)

\* handleSelectChange: the fieldName and the targetText of a change of a select
SelectFieldName(e, info) == FirstNonEmpty(<<info.labelText, info.name, info.ariaLabel, e.name>>)
SelectTargetText(e, info) == FirstNonEmpty(<<info.labelText, SelectFieldName(e, info)>>)

\* the keys that are captured as they are
CAPTURED_KEYS ==
    {"Enter", "Tab", "Escape", "ArrowUp", "ArrowDown", "ArrowLeft", "ArrowRight",
     "Home", "End", "PageUp", "PageDown", "Backspace", "Delete"}

\* the keys of one letter or digit, and key.toUpperCase()
SingleAlnum == {"a", "A", "1"}
toUpperCase(k) == IF k = "a" THEN "A" ELSE k

\* a key as it is logged: alone, or behind "CmdOrCtrl+"
NoKey == [combo |-> FALSE, key |-> ""]
CapturedOnly(k, ctrlOrMeta) ==
    IF k \in CAPTURED_KEYS THEN [combo |-> FALSE, key |-> k] ELSE NoKey
keyToLog(k, ctrlOrMeta) ==
    IF k \in CAPTURED_KEYS THEN [combo |-> FALSE, key |-> k]
    ELSE IF ctrlOrMeta /\ k \in SingleAlnum THEN [combo |-> TRUE, key |-> toUpperCase(k)]
    ELSE NoKey

\* the keys that are pressed
KeysPressed == {"Enter", "Tab", "Delete", "a", "A", "1", "F5", "-", "Shift"}

\* the kinds of elements, and those of the branch for radio buttons and checkboxes
Kinds ==
    {"text", "password", "select", "button", "submit", "div", "radio", "checkbox",
     "roleradio"}
GroupedKinds == {"radio", "checkbox", "roleradio"}

\* what an element of kind k can have around it and on it
Ids == {Empty, <<"i">>}
LabelsFor(i) ==
    IF i = Empty THEN {Absent}
    ELSE {Absent, Beside(<<" ">>, FALSE), Beside(<<" ", "L", "b", " ">>, FALSE)}
Names(k) == IF k = "div" THEN {Empty} ELSE {Empty, <<"n">>}
Values(k) ==
    CASE k = "div" -> {Empty}
      [] k = "password" -> {<<"v">>, <<"w">>}
      [] OTHER -> {Empty, <<"v">>}
Placeholders(k) == IF k = "text" THEN {Empty, <<"p">>} ELSE {Empty}
OwnTexts(k) ==
    CASE k \in {"button", "roleradio"} -> {Empty, <<"B", "t", "n">>}
      [] k = "div" -> {Empty, <<"T", "x", "t">>, Rep("T", TextContentCap + 1)}
      [] k = "select" -> {<<"O", "p", "t">>}
      [] OTHER -> {Empty}
Prevs == {Absent, Beside(<<"s">>, FALSE), Beside(<<"s", "i", "b">>, FALSE),
          Beside(<<"H", "d", "g">>, TRUE)}
Nexts(k) == IF k \in GroupedKinds THEN {Absent, Beside(<<"n", "x">>, FALSE)} ELSE {Absent}
Legends(k) == IF k = "radio" THEN {Empty, <<"L", "e", "g">>} ELSE {Empty}
LabelledBys(k) == IF k \in GroupedKinds THEN {Empty} ELSE {Empty, <<"B", "y">>}
Visibles(k) == IF k = "radio" THEN BOOLEAN ELSE {TRUE}

\* the elements events are targeted at
ElementsOfKind(k) ==
    UNION { { Element(k, i, n, v, ph, ti, al, own, lf, pl, po, pv, nx, lg, lb, vis) :
                n \in Names(k), v \in Values(k), ph \in Placeholders(k),
                ti \in {Empty, <<"t">>}, al \in {Empty, <<"r">>}, own \in OwnTexts(k),
                lf \in LabelsFor(i), pl \in BOOLEAN, po \in {Empty, <<"P", "a", "r", " ">>},
                pv \in Prevs, nx \in Nexts(k), lg \in Legends(k), lb \in LabelledBys(k),
                vis \in Visibles(k) } : i \in Ids }

RecInit ==
    /\ ExecIdle
    /\ ResIdle
    /\ ScoreIdle
    /\ RadioIdle
    /\ ConvIdle
    /\ LaterIdle
    /\ \E k \in Kinds : element \in ElementsOfKind(k)
    /\ message = NoMessage
    /\ epc = "page"
    /\ pressed = NoPress

\* the message of a click on element e
clickData(e) ==
    LET semanticInfo == extractSemanticInfo(e)
    IN  Message("CUSTOM_CLICK_EVENT", TRUE, ClickTargetText(e, semanticInfo), NoKey,
                semanticInfo)

\* a click on the element
handleCustomClick ==
    /\ epc = "page"
    /\ IF shouldSkipClickEvent(element, clickData(element).targetText)
       THEN message' = NoMessage /\ epc' = "skipped"
       ELSE message' = clickData(element) /\ epc' = "sent"
    /\ UNCHANGED <<element, pressed>>
    /\ UNCHANGED notRecVars

\* the value of the payload of an input event: a password is masked
Masked == Rep("*", 8)
inputValue(e) == IF elementType(e) = "password" THEN Masked ELSE e.value

\* the message of an input event on element e
inputData(e) ==
    LET semanticInfo == extractSemanticInfo(e)
    IN  [Message("CUSTOM_INPUT_EVENT", TRUE, InputTargetText(semanticInfo), NoKey,
                 semanticInfo) EXCEPT !.value = inputValue(e)]

\* an input event on the element (an input or a select: it has a value)
handleInput ==
    /\ epc = "page"
    /\ tagName(element) \in {"input", "select"} /\ ~IsButton(element)
    /\ message' = inputData(element)
    /\ epc' = "sent"
    /\ UNCHANGED <<element, pressed>>
    /\ UNCHANGED notRecVars

\* a change event on a select element
handleSelectChange ==
    /\ epc = "page"
    /\ tagName(element) = "select"
    /\ LET semanticInfo == extractSemanticInfo(element)
       IN  message' = Message("CUSTOM_SELECT_EVENT", TRUE,
                              SelectTargetText(element, semanticInfo), NoKey, semanticInfo)
    /\ epc' = "sent"
    /\ UNCHANGED <<element, pressed>>
    /\ UNCHANGED notRecVars

\* a key goes down while the element has the focus; the payload carries the
\* key and where the element is, and no targetText; a key that is not to be
\* logged sends nothing
handleKeydown ==
    /\ epc = "page"
    /\ \E k \in KeysPressed : \E ctrlOrMeta \in BOOLEAN :
        /\ pressed' = [key |-> k, ctrlOrMeta |-> ctrlOrMeta]
        /\ IF keyToLog(k, ctrlOrMeta) # NoKey
           THEN /\ message' = Message("CUSTOM_KEY_EVENT", FALSE, Empty, keyToLog(k, ctrlOrMeta), NoInfo)
                /\ epc' = "sent"
           ELSE /\ message' = NoMessage
                /\ epc' = "ignored"
    /\ UNCHANGED element
    /\ UNCHANGED notRecVars

RecNext ==
    \/ handleCustomClick
    \/ handleInput
    \/ handleSelectChange
    \/ handleKeydown

RecSpec == RecInit /\ [][RecNext]_vars

(***************************************************************************)
(* Part VII - the _radioButtonInfo of a radio button or checkbox           *)
(***************************************************************************)

\* the most radio buttons of a document with several of them
MaxRadios == 2

\* document.querySelectorAll(`input[type="radio"][name="${radioName}"]`)
radioGroup(doc, radioName) ==
    SelectSeq(doc, LAMBDA r : tagName(r) = "input" /\ elementType(r) = "radio"
                              /\ r.name = radioName)

\* the text of one radio button of the group: label[for=id], else the label
\* it is the child of, else its value
radioOptionText(r) == FirstNonEmpty(<<AssociatedLabel(r), ParentLabelText(r), r.value>>)

\* allOptions.push(radioOptionText) without a look at what is there
PushAlways(acc, t) == IF t # Empty THEN Append(acc, t) ELSE acc

\* if (radioOptionText && !allOptions.includes(radioOptionText)) push
PushOption(acc, t) ==
    IF t # Empty /\ \A k \in 1..Len(acc) : acc[k] # t THEN Append(acc, t) ELSE acc

\* radioGroup.forEach from the k-th radio button on
RECURSIVE CollectOptions(_, _, _)
CollectOptions(group, k, acc) ==
    IF k > Len(group) THEN acc
    ELSE CollectOptions(group, k + 1, PushOption(acc, radioOptionText(group[k])))

\* allOptions of element e in document doc
allOptions(doc, e) ==
    IF elementType(e) = "radio" /\ e.name # Empty
    THEN CollectOptions(radioGroup(doc, e.name), 1, <<>>)
    ELSE <<>>

\* what is stored on the element as _radioButtonInfo
RadioButtonInfo(doc, e) ==
    [fieldName |-> fieldName(e), optionValue |-> optionValue(e),
     allOptions |-> allOptions(doc, e)]

\* a radio button or checkbox alone in its document, of kind k: with or
\* without id and label, in a label or not, with siblings and values of the
\* lengths the extractor tells apart
GroupControls(k) ==
    UNION { { Element(k, i, n, v, Empty, Empty, Empty, Empty, lf, pl, po, pv, nx, lg,
                      Empty, TRUE) :
                n \in {Empty, <<"n">>},
                v \in {Empty, <<"v">>, Rep("v", ValueOptionCap - 1), Rep("v", ValueOptionCap)},
                lf \in IF i = Empty THEN {Absent} ELSE {Absent, Beside(<<" ", "L", "b", " ">>, FALSE)},
                pl \in BOOLEAN, po \in {Empty, <<"P", "a", "r", " ">>},
                pv \in {Absent, Beside(<<"s", "i", "b">>, FALSE), Beside(<<"H", "d", "g">>, TRUE)},
                nx \in {Absent, Beside(<<"x">>, FALSE), Beside(<<"n", "x">>, FALSE),
                        Beside(Rep("x", SiblingOptionCap - 1), FALSE),
                        Beside(Rep("x", SiblingOptionCap), FALSE)},
                lg \in IF k = "radio" THEN {Empty, <<"L", "e", "g">>} ELSE {Empty} } :
            i \in Ids }

\* a radio button among others, named n: labelled by label[for=id], wrapped
\* in a label, with a text beside it, or bare, with or without a value
RadioShapes(n) ==
    LET Radio(i, v, lf, pl, po, nx) ==
            Element("radio", i, n, v, Empty, Empty, Empty, Empty, lf, pl, po, Absent, nx,
                    Empty, Empty, TRUE)
    IN  { Radio(<<"a">>, <<"y">>, Beside(<<" ", "Y", "e", "s", " ">>, FALSE), FALSE, Empty, Absent),
          Radio(Empty, <<"n">>, Absent, TRUE, <<"N", "o", " ">>, Absent),
          Radio(Empty, <<"Y", "e", "s">>, Absent, FALSE, Empty, Absent),
          Radio(Empty, <<"v">>, Absent, FALSE, Empty, Absent),
          Radio(Empty, <<"v">>, Absent, FALSE, Empty, Beside(<<"n", "x">>, FALSE)),
          Radio(Empty, Empty, Absent, FALSE, Empty, Absent) }

GroupRadios == UNION {RadioShapes(n) : n \in {Empty, <<"n">>, <<"m">>}}

GroupInit ==
    /\ ExecIdle
    /\ ResIdle
    /\ ScoreIdle
    /\ RadioIdle
    /\ ConvIdle
    /\ RecIdle
    /\ XPathIdle
    /\ ScrollIdle
    /\ LifeIdle
    /\ AskIdle
    /\ \/ \E k \in GroupedKinds : \E e \in GroupControls(k) : radios = <<e>>
       \/ \E n \in 2..MaxRadios : radios \in [1..n -> GroupRadios]
    /\ picked = 0
    /\ radioButtonInfo = NoGroupInfo
    /\ gpc = "document"

\* extractSemanticInfo is called on one of the radio buttons and checkboxes
\* (by a click or an input event) and stores its _radioButtonInfo
extractRadioButtonInfo ==
    /\ gpc = "document"
    /\ \E i \in 1..Len(radios) :
        /\ picked' = i
        /\ radioButtonInfo' = RadioButtonInfo(radios, radios[i])
    /\ gpc' = "extracted"
    /\ UNCHANGED radios
    /\ UNCHANGED notGroupVars

GroupNext == extractRadioButtonInfo

GroupSpec == GroupInit /\ [][GroupNext]_vars

(***************************************************************************)
(* Part VIII - getXPath                                                    *)
(***************************************************************************)

\* The elements of a document are numbered in document order: 1 is <html>,
\* 2 <head>, 3 <body>, and the others have a parent before them.  The parent
\* of <html> is the document, which is no element (0: parentElement is null).
MaxNodes == 5
HtmlNode == 1
HeadNode == 2
BodyNode == 3

Nodes(d) == 1..Len(d.parent)

\* element.parentNode.children: the elements with the parent of n, in order
Siblings(d, n) == {m \in Nodes(d) : d.parent[m] = d.parent[n]}

\* ix: the siblings before n that have the tag of n
SameTagBefore(d, n) == Cardinality({m \in Siblings(d, n) : m < n /\ d.tag[m] = d.tag[n]})

\* the steps of a path: id("..."), a tag, or tag[position]
IdStep(i) == [kind |-> "id", name |-> i, position |-> 0]
TagStep(t) == [kind |-> "tag", name |-> t, position |-> 0]
PositionStep(t, k) == [kind |-> "position", name |-> t, position |-> k]

\* getXPath(element); a call on null throws at `element.id`
RECURSIVE getXPath(_, _)
getXPath(d, n) ==
    IF n = 0 THEN TypeError
    ELSE IF d.id[n] # "" THEN Path(<<IdStep(d.id[n])>>)
    ELSE IF n = BodyNode THEN Path(<<TagStep(d.tag[n])>>)
    ELSE LET above == getXPath(d, d.parent[n])
         IN  IF above.status = "TypeError" THEN TypeError
             ELSE Path(Append(above.steps, PositionStep(d.tag[n], SameTagBefore(d, n) + 1)))

\* the documents: <html>, <head> and <body>, and elements below them
Documents(size) ==
    { [parent |-> p, tag |-> t, id |-> i] :
        p \in {q \in [1..size -> 0..(size - 1)] :
                 /\ q[HtmlNode] = 0 /\ q[HeadNode] = HtmlNode /\ q[BodyNode] = HtmlNode
                 /\ \A n \in (BodyNode + 1)..size : q[n] \in HeadNode..(n - 1)},
        t \in {u \in [1..size -> {"html", "head", "body", "div", "span"}] :
                 /\ u[HtmlNode] = "html" /\ u[HeadNode] = "head" /\ u[BodyNode] = "body"
                 /\ \A n \in (BodyNode + 1)..size : u[n] \in {"div", "span"}},
        i \in [1..size -> {"", "x"}] }

XPathInit ==
    /\ EarlierIdle
    /\ GroupIdle
    /\ ScrollIdle
    /\ LifeIdle
    /\ AskIdle
    /\ dom \in Documents(MaxNodes)
    /\ target = 0
    /\ xpath = NoPath
    /\ xpc = "document"

\* an event on an element of the document: its handler calls getXPath
callGetXPath ==
    /\ xpc = "document"
    /\ \E n \in Nodes(dom) :
        /\ target' = n
        /\ xpath' = getXPath(dom, n)
    /\ xpc' = "done"
    /\ UNCHANGED dom
    /\ UNCHANGED notXPathVars

XPathNext == callGetXPath

XPathSpec == XPathInit /\ [][XPathNext]_vars

(***************************************************************************)
(* Part IX - startRecorder: the scroll events of rrweb                     *)
(***************************************************************************)

\* Wait 500ms after scroll stops
DEBOUNCE_MS == 500

\* the events rrweb emits in one behaviour, and the largest scroll offset;
\* offsets are counted in halves of a pixel, so that they need rounding
MaxEvents == 3
MaxScrollY == 3

\* the step of the clock, and the time after which the clock is not read
TickMs == DEBOUNCE_MS \div 2
TimeCap == 2 * DEBOUNCE_MS

\* Math.floor of an offset given in halves
Floor(h) == h \div 2

\* Math.round of an offset given in halves: halves are rounded up
Round(h) == (h + 1) \div 2

\* roundedScrollData: the event with x and y rounded
roundedScrollData(ev) == Event(ev.id, ev.source, Round(ev.x), Round(ev.y))

\* currentDirection: null for the first scroll event, else down or up
currentDirection(y) ==
    IF lastScrollY = <<>> THEN "null"
    ELSE IF y > lastScrollY[1] THEN "down" ELSE "up"

\* no scroll event counts as a change of direction
NeverChanged(last, current) == FALSE

\* the test for "record immediately if direction changes"
DirectionChanged(last, current) ==
    last # "null" /\ current # "null" /\ current # last

\* chrome.runtime.sendMessage({ type: "RRWEB_EVENT", payload })
sendMessage(ev) == Append(sent, [type |-> "RRWEB_EVENT", payload |-> ev])

ScrollInit ==
    /\ EarlierIdle
    /\ GroupIdle
    /\ XPathIdle
    /\ LifeIdle
    /\ AskIdle
    /\ isRecordingActive = TRUE
    /\ scrollTimeout = NoTimer
    /\ lastScrollY = <<>>
    /\ lastDirection = "null"
    /\ sent = <<>>
    /\ emitted = 0
    /\ lastEvent = [event |-> NoEvent, direction |-> "null"]
    /\ sinceScroll = 0
    /\ cancelled = {}

\* emit(event) for a scroll event at offset (x, y)
emitScroll ==
    /\ isRecordingActive
    /\ emitted < MaxEvents
    /\ \E x \in {1}, y \in 0..MaxScrollY :
        LET event == Event(emitted + 1, "scroll", x, y)
            direction == currentDirection(y)
        IN  /\ emitted' = emitted + 1
            /\ lastEvent' = [event |-> event, direction |-> direction]
            /\ sinceScroll' = 0
            /\ lastScrollY' = <<y>>
            /\ lastDirection' = direction
            /\ IF DirectionChanged(lastDirection, direction)
               THEN /\ scrollTimeout' = NoTimer
                    /\ sent' = sendMessage(roundedScrollData(event))
                    /\ cancelled' = IF scrollTimeout.pending
                                    THEN cancelled \cup {scrollTimeout.event.id}
                                    ELSE cancelled
               ELSE /\ scrollTimeout' = Timer(roundedScrollData(event), DEBOUNCE_MS)
                    /\ UNCHANGED <<sent, cancelled>>
    /\ UNCHANGED isRecordingActive
    /\ UNCHANGED notScrollVars

\* emit(event) for an event that is no scroll event: passed on unchanged
emitOther ==
    /\ isRecordingActive
    /\ emitted < MaxEvents
    /\ emitted' = emitted + 1
    /\ sent' = sendMessage(Event(emitted + 1, "other", 0, 0))
    /\ UNCHANGED <<isRecordingActive, scrollTimeout, lastScrollY, lastDirection, lastEvent,
                   sinceScroll, cancelled>>
    /\ UNCHANGED notScrollVars

\* the callback of setTimeout, DEBOUNCE_MS after the timer was set
timeoutFires ==
    /\ scrollTimeout.pending
    /\ scrollTimeout.remaining = 0
    /\ sent' = sendMessage(scrollTimeout.event)
    /\ scrollTimeout' = NoTimer
    /\ lastDirection' = "null"
    /\ UNCHANGED <<isRecordingActive, lastScrollY, emitted, lastEvent, sinceScroll, cancelled>>
    /\ UNCHANGED notScrollVars

\* time passes; a timer that is due fires before more time passes
Tick ==
    /\ sinceScroll < TimeCap
    /\ emitted > 0
    /\ ~(scrollTimeout.pending /\ scrollTimeout.remaining = 0)
    /\ sinceScroll' = sinceScroll + TickMs
    /\ scrollTimeout' = IF scrollTimeout.pending
                        THEN Timer(scrollTimeout.event, scrollTimeout.remaining - TickMs)
                        ELSE NoTimer
    /\ UNCHANGED <<isRecordingActive, lastScrollY, lastDirection, sent, emitted, lastEvent,
                   cancelled>>
    /\ UNCHANGED notScrollVars

\* stopRecorder: rrweb emits nothing more; a pending timer is not cleared
stopRecorder ==
    /\ isRecordingActive
    /\ isRecordingActive' = FALSE
    /\ UNCHANGED <<scrollTimeout, lastScrollY, lastDirection, sent, emitted, lastEvent,
                   sinceScroll, cancelled>>
    /\ UNCHANGED notScrollVars

ScrollNext ==
    \/ emitScroll
    \/ emitOther
    \/ timeoutFires
    \/ Tick
    \/ stopRecorder

ScrollSpec == ScrollInit /\ [][ScrollNext]_vars

(***************************************************************************)
(* Part X - the life of the recorder in the content script                 *)
(***************************************************************************)
\* most rrweb sessions that are started in one run
MaxStarts == 3

\* what startRecorder and stopRecorder read and write
recorderVars == <<isRecordingActive, stopRecording, listeners, sessions, started>>
overlayVars == <<currentOverlay, currentFocusOverlay, hoverOverlays, focusOverlays>>

\* the content script is loaded: main has added its message listener and
\* has sent REQUEST_RECORDING_STATUS
LifeInit ==
    /\ EarlierIdle
    /\ GroupIdle
    /\ XPathIdle
    /\ AskIdle
    /\ NoScroll
    /\ isRecordingActive = TRUE
    /\ stopRecording = FALSE
    /\ listeners = FALSE
    /\ sessions = 0
    /\ started = 0
    /\ statusRequest = "pending"
    /\ handled = "none"
    /\ called = "none"
    /\ currentOverlay = FALSE
    /\ currentFocusOverlay = FALSE
    /\ hoverOverlays = 0
    /\ focusOverlays = 0

\* startRecorder(): nothing if a session is running, else rrweb.record and
\* the listeners
startRecorder ==
    IF stopRecording
    THEN UNCHANGED recorderVars
    ELSE /\ isRecordingActive' = TRUE
         /\ stopRecording' = TRUE
         /\ sessions' = sessions + 1
         /\ started' = started + 1
         /\ listeners' = TRUE

\* the model follows a run up to MaxStarts sessions
WithinStarts == stopRecording \/ started < MaxStarts

\* stopRecording(): the session of rrweb ends
keepSession == sessions' = sessions
stopSession == sessions' = sessions - 1

\* the branch of stopRecorder for a running session, without the listeners
stopRunning ==
    /\ stopSession
    /\ stopRecording' = FALSE
    /\ isRecordingActive' = FALSE
    /\ UNCHANGED started

\* stopRecorder(): nothing but a log line if no session is running
callStopRecorder ==
    IF stopRecording
    THEN stopRunning /\ listeners' = FALSE
    ELSE UNCHANGED recorderVars

\* the listener of chrome.runtime.onMessage gets SET_RECORDING_STATUS
onSetRecordingStatus ==
    /\ \E shouldBeRecording \in BOOLEAN :
        /\ handled' = IF shouldBeRecording THEN "SET_RECORDING_STATUS true"
                      ELSE "SET_RECORDING_STATUS false"
        /\ IF shouldBeRecording /\ ~isRecordingActive
           THEN WithinStarts /\ startRecorder /\ called' = "startRecorder"
           ELSE IF ~shouldBeRecording /\ isRecordingActive
           THEN callStopRecorder /\ called' = "stopRecorder"
           ELSE UNCHANGED recorderVars /\ called' = "none"
    /\ UNCHANGED <<statusRequest, overlayVars>>
    /\ UNCHANGED notLifeVars

\* the callback of REQUEST_RECORDING_STATUS runs: with lastError set, or
\* with a response that says whether recording is enabled
onStatusResponse ==
    /\ statusRequest = "pending"
    /\ \E response \in {"lastError", "enabled", "disabled"} :
        CASE response = "lastError" ->
                /\ statusRequest' = "failed"
                /\ handled' = "status failed"
                /\ called' = "none"
                /\ UNCHANGED recorderVars
          [] response = "enabled" ->
                /\ statusRequest' = "answered"
                /\ handled' = "status enabled"
                /\ WithinStarts /\ startRecorder
                /\ called' = "startRecorder"
          [] response = "disabled" ->
                /\ statusRequest' = "answered"
                /\ handled' = "status disabled"
                /\ callStopRecorder
                /\ called' = "stopRecorder"
    /\ UNCHANGED overlayVars
    /\ UNCHANGED notLifeVars

\* the listener of beforeunload: removes the listeners, then stopRecorder()
beforeunload ==
    /\ handled' = "beforeunload"
    /\ called' = "stopRecorder"
    /\ listeners' = FALSE
    /\ IF stopRecording
       THEN stopRunning
       ELSE UNCHANGED <<isRecordingActive, stopRecording, sessions, started>>
    /\ UNCHANGED <<statusRequest, overlayVars>>
    /\ UNCHANGED notLifeVars

\* mouseover: the overlay of the last element goes, and the element under
\* the mouse gets one if it is found again by its XPath or selector
handleMouseOver ==
    /\ listeners
    /\ isRecordingActive
    /\ \E found \in BOOLEAN :
        /\ hoverOverlays' = (IF currentOverlay THEN hoverOverlays - 1 ELSE hoverOverlays)
                            + (IF found THEN 1 ELSE 0)
        /\ currentOverlay' = found
    /\ handled' = "mouseover"
    /\ called' = "none"
    /\ UNCHANGED <<recorderVars, statusRequest, currentFocusOverlay, focusOverlays>>
    /\ UNCHANGED notLifeVars

\* mouseout
handleMouseOut ==
    /\ listeners
    /\ isRecordingActive
    /\ hoverOverlays' = IF currentOverlay THEN hoverOverlays - 1 ELSE hoverOverlays
    /\ currentOverlay' = FALSE
    /\ handled' = "mouseout"
    /\ called' = "none"
    /\ UNCHANGED <<recorderVars, statusRequest, currentFocusOverlay, focusOverlays>>
    /\ UNCHANGED notLifeVars

\* focus: only an input, textarea or select gets an overlay
handleFocus ==
    /\ listeners
    /\ isRecordingActive
    /\ \E isField \in BOOLEAN, found \in BOOLEAN :
        IF isField
        THEN /\ focusOverlays' = (IF currentFocusOverlay THEN focusOverlays - 1
                                  ELSE focusOverlays) + (IF found THEN 1 ELSE 0)
             /\ currentFocusOverlay' = found
        ELSE UNCHANGED <<currentFocusOverlay, focusOverlays>>
    /\ handled' = "focus"
    /\ called' = "none"
    /\ UNCHANGED <<recorderVars, statusRequest, currentOverlay, hoverOverlays>>
    /\ UNCHANGED notLifeVars

\* blur
handleBlur ==
    /\ listeners
    /\ isRecordingActive
    /\ focusOverlays' = IF currentFocusOverlay THEN focusOverlays - 1 ELSE focusOverlays
    /\ currentFocusOverlay' = FALSE
    /\ handled' = "blur"
    /\ called' = "none"
    /\ UNCHANGED <<recorderVars, statusRequest, currentOverlay, hoverOverlays>>
    /\ UNCHANGED notLifeVars

LifeNext ==
    \/ onSetRecordingStatus
    \/ onStatusResponse
    \/ beforeunload
    \/ handleMouseOver
    \/ handleMouseOut
    \/ handleFocus
    \/ handleBlur

LifeSpec == LifeInit /\ [][LifeNext]_vars

(***************************************************************************)
(* Part XI - the extraction dialog of the side panel                       *)
(***************************************************************************)
\* the delay of the timer of a request, the step of time, and the time a
\* run is followed after the request
TimeoutMs == 5000
AskTickMs == TimeoutMs \div 2
AskTimeCap == 2 * TimeoutMs

\* what the user types into the goal field
Goals == {Empty, <<" ">>, <<"g">>, <<" ", "g", " ">>}

\* the side panel shows the recording view
AskInit ==
    /\ EarlierIdle
    /\ GroupIdle
    /\ XPathIdle
    /\ ScrollIdle
    /\ LifeIdle
    /\ extractionGoal = Empty
    /\ showExtractionDialog = FALSE
    /\ request = NoRequest
    /\ responseReceived = FALSE
    /\ timeoutId = NoTimeout
    /\ alerts = <<>>
    /\ dialogClosed = FALSE
    /\ waited = 0

\* a click on "Extract with AI"
openDialog ==
    /\ ~showExtractionDialog
    /\ showExtractionDialog' = TRUE
    /\ UNCHANGED <<extractionGoal, request, responseReceived, timeoutId, alerts,
                   dialogClosed, waited>>
    /\ UNCHANGED notAskVars

\* the user edits the goal field
setExtractionGoal ==
    /\ showExtractionDialog
    /\ \E goal \in Goals : extractionGoal' = goal
    /\ UNCHANGED <<showExtractionDialog, request, responseReceived, timeoutId, alerts,
                   dialogClosed, waited>>
    /\ UNCHANGED notAskVars

\* a click on "Cancel"
cancelDialog ==
    /\ showExtractionDialog
    /\ showExtractionDialog' = FALSE
    /\ extractionGoal' = Empty
    /\ UNCHANGED <<request, responseReceived, timeoutId, alerts, dialogClosed, waited>>
    /\ UNCHANGED notAskVars

\* a click on "Add Extraction" (the run follows one request): with a goal
\* that is not blank the timer is set and the message is sent
handleAddExtraction ==
    /\ showExtractionDialog
    /\ request = NoRequest
    /\ IF Strip(extractionGoal) # Empty
       THEN /\ request' = Request("in flight", extractionGoal, Strip(extractionGoal))
            /\ timeoutId' = Timeout("set", TimeoutMs)
            /\ responseReceived' = FALSE
       ELSE /\ request' = Request("declined", extractionGoal, Empty)
            /\ UNCHANGED <<timeoutId, responseReceived>>
    /\ UNCHANGED <<extractionGoal, showExtractionDialog, alerts, dialogClosed, waited>>
    /\ UNCHANGED notAskVars

\* the callback of sendMessage runs, with lastError set or with a response
clearTimeout(t) == IF t.state = "set" THEN Timeout("cleared", 0) ELSE t
onExtractionResponse ==
    /\ request.state = "in flight"
    /\ request' = [request EXCEPT !.state = "answered"]
    /\ responseReceived' = TRUE
    /\ timeoutId' = clearTimeout(timeoutId)
    /\ \E response \in {"lastError", "added", "error"} :
        CASE response = "lastError" ->
                /\ alerts' = Append(alerts, "Chrome runtime error")
                /\ UNCHANGED <<extractionGoal, showExtractionDialog, dialogClosed>>
          [] response = "added" ->
                /\ extractionGoal' = Empty
                /\ showExtractionDialog' = FALSE
                /\ dialogClosed' = TRUE
                /\ UNCHANGED alerts
          [] response = "error" ->
                /\ alerts' = Append(alerts, "Failed to add extraction step")
                /\ UNCHANGED <<extractionGoal, showExtractionDialog, dialogClosed>>
    /\ UNCHANGED waited
    /\ UNCHANGED notAskVars

\* the callback of the timer runs and, if the promise was rejected, its
\* catch handler
onTimeout ==
    /\ timeoutId.state = "set"
    /\ timeoutId.remaining = 0
    /\ timeoutId' = Timeout("fired", 0)
    /\ alerts' = IF ~responseReceived THEN Append(alerts, "Request timed out") ELSE alerts
    /\ UNCHANGED <<extractionGoal, showExtractionDialog, request, responseReceived,
                   dialogClosed, waited>>
    /\ UNCHANGED notAskVars

\* time passes while the request is in flight; a timer that is due fires
\* before more time passes
AskTick ==
    /\ request.state = "in flight"
    /\ waited < AskTimeCap
    /\ ~(timeoutId.state = "set" /\ timeoutId.remaining = 0)
    /\ waited' = waited + AskTickMs
    /\ timeoutId' = IF timeoutId.state = "set"
                    THEN Timeout("set", timeoutId.remaining - AskTickMs)
                    ELSE timeoutId
    /\ UNCHANGED <<extractionGoal, showExtractionDialog, request, responseReceived, alerts,
                   dialogClosed>>
    /\ UNCHANGED notAskVars

AskNext ==
    \/ openDialog
    \/ setExtractionGoal
    \/ cancelDialog
    \/ handleAddExtraction
    \/ onExtractionResponse
    \/ onTimeout
    \/ AskTick

AskSpec == AskInit /\ [][AskNext]_vars

(***************************************************************************)
(* Properties of Part I                                                    *)
(***************************************************************************)

\* The step that ended last, and whether one has ended.
StepJustEnded == pc = "next" /\ cur > 1
Ended == cur - 1

\* C1: a step whose verification returns false on every call ends with the
\* terminal StepVerificationFailed error after at most max_retries primitive
\* actions; it never ends with success or without a result.
C1_AlwaysFalseEndsInVerificationFailed ==
    (StepJustEnded /\ verification_method[Ended] /\ onlyFalse)
        => (stepResult[Ended] = "StepVerificationFailed" /\ actions <= max_retries)

\* C2 (as stated): a step is reported successful only if, in the same attempt,
\* the primitive action was performed and the verification then returned true.
C2_SuccessOnlyAfterVerification ==
    (StepJustEnded /\ stepResult[Ended] = "ok") => (acted /\ verdict = "true")

\* C2 (amended): a step with a verification method is reported successful only
\* if, in the same attempt, the primitive action was performed and the
\* verification then returned true; a step without a verification method is
\* reported successful as soon as its primitive action returned, unverified.
C2_SuccessOnlyAfterSuppliedVerification ==
    (StepJustEnded /\ stepResult[Ended] = "ok")
        => /\ acted
           /\ verification_method[Ended] => verdict = "true"
           /\ ~verification_method[Ended] => verdict = "none"

C2_Witness ==
    /\ StepJustEnded
    /\ stepResult[Ended] = "ok"
    /\ verification_method[Ended]
    /\ attempts >= 2
    /\ failures >= 1

\* C3: no primitive action is performed with a descriptor from a mapping that
\* was built before the most recent action on the page.
C3_NoActionOnStaleMapping == ~usedStale

\* C7: steps run strictly in sequence: at most one step is active, a step is
\* started only after its predecessor has completed (verifications and retries
\* included), and the retry loop always works for the one active step.
C7_StepsStrictlySequential ==
    /\ Cardinality({i \in Steps : stepState[i] = "active"}) <= 1
    /\ \A i \in Steps :
          (i > 1 /\ stepState[i] # "pending") => stepState[i - 1] \in {"done", "failed"}
    /\ pc \in {"loop", "exec", "verify", "sleep", "refresh"}
          => (cur \in Steps /\ stepState[cur] = "active")

C7_Witness ==
    /\ stepState[1] = "failed"
    /\ failedWith[1] = "StepVerificationFailed"
    /\ max_retries = 2
    /\ stepState[2] = "active"
    /\ pc = "verify"
    /\ attempts = 2

\* C8: once cancellation is requested, no new step and no further attempt of
\* the retry loop is started.
C8_NothingStartsAfterCancel == ~startedAfterCancel

\* C9: timeouts, thrown actions and failed verifications each use up exactly
\* one attempt of the same bounded loop: the attempts of a step never exceed
\* max_retries, every failure belongs to an attempt of its own, a step fails
\* only when max_retries attempts are used up, and a step all of whose
\* attempts failed ends with a terminal error.
C9_FailuresShareTheBoundedRetries ==
    /\ attempts <= max_retries
    /\ failures <= attempts
    /\ actions <= attempts
    /\ pc \in {"exec", "verify"} => (attempts = attempt + 1 /\ failures = attempt)
    /\ pc \in {"sleep", "refresh"} => (attempts = attempt + 1 /\ failures = attempt + 1)
    /\ (StepJustEnded /\ stepResult[Ended] \in ErrorKinds) => attempts = max_retries
    /\ (StepJustEnded /\ failures >= 1 /\ failures = attempts)
          => stepResult[Ended] \in ErrorKinds

C9_Witness ==
    /\ StepJustEnded
    /\ max_retries = 2
    /\ attempts = 2
    /\ verdict = "timeout"
    /\ stepResult[Ended] = "TimeoutError"

MappingCurrent == rpc \in {"ready", "resolved"}

\* what the identifier stage yields: nothing for a target of another shape
IdentifierStage(t, pg) == IF looks_like_identifier(t) THEN try_direct_selector(t, pg) ELSE None

\* the result of the first stage, in the fixed order, that yields one (the
\* steps resolved here carry no hint, so the context stage yields nothing)
FirstYield(t, m, pg) ==
    IF exact_match(t, m) # None THEN exact_match(t, m)
    ELSE IF IdentifierStage(t, pg) # None THEN IdentifierStage(t, pg)
    ELSE fuzzy_match_with_scoring(t, m)

\* C4: resolve returns the result of the first stage, in the order exact,
\* identifier, context, fuzzy, that yields one: an earlier result is never
\* replaced and a stage that yields nothing is followed by the next stage.
C4_FirstYieldingStageWins ==
    rpc = "resolved" /\ hints = NoHints =>
        resolution = Outcome(FirstYield(target_text, mapping, page), mapping)

\* no stage yields a result for target t
NoStageYields(t, m, pg) ==
    /\ \A k \in 1..Len(m) : Lower(m[k].text) # Strip(Lower(t))
    /\ ~(looks_like_identifier(t) /\ \E i \in 1..Len(pg) : pg[i].id = t \/ pg[i].name = t)
    /\ \A k \in 1..Len(m) : Score(t, m[k].text) <= ConfidenceFloor

ProperPrefix(s, t) == Len(s) < Len(t) /\ SubSeq(t, 1, Len(s)) = s

HintedElements ==
    {j \in SameText(page, recorded) : HintMatches(DescriptorOf(page, j), hints)}

\* C11: when several elements share a raw text, a step carrying a
\* container_hint or a position_hint resolves to the element whose stored
\* context matches the hint, and never to another element with that text.
C11_HintedStepResolvesToItsElement ==
    rpc = "resolved" /\ recorded # 0 /\ HintedElements = {recorded} =>
        /\ resolution.status = "found"
        /\ resolution.descriptor.el = recorded

\* the fuzzy stage is reached: no earlier stage has returned
FuzzyReached(t, h, m, pg) ==
    /\ exact_match(t, m) = None
    /\ ~looks_like_identifier(t)
    /\ context_match(t, h, m) = None

\* C15: when several keys reach the same greatest fuzzy score above the
\* floor, the fuzzy stage returns the descriptor of the shortest of them.
C15_TieGoesToShortestKey ==
    rpc = "resolved" /\ FuzzyReached(target_text, hints, mapping, page)
        /\ Cardinality(TopScored(target_text, mapping)) >= 2
        /\ Cardinality(Shortest(mapping, TopScored(target_text, mapping))) = 1 =>
        /\ resolution.status = "found"
        /\ resolution.descriptor.text = mapping[MinOf(Shortest(mapping, TopScored(target_text, mapping)))].text

\* C16: when the fuzzy stage has several equally top-scored candidates and
\* the step carries no hint, resolve fails with AmbiguousMatch and returns
\* no descriptor.
C16_TieWithoutHintIsAmbiguous ==
    rpc = "resolved" /\ hints = NoHints
        /\ FuzzyReached(target_text, hints, mapping, page)
        /\ Cardinality(TopScored(target_text, mapping)) >= 2 =>
        /\ resolution.status = "AmbiguousMatch"
        /\ resolution.descriptor = None

(***************************************************************************)
(* Properties of Part III                                                  *)
(***************************************************************************)

\* C14: for any two texts of which one contains the other as a substring,
\* the fuzzy score of the one against the other is non-zero in both
\* directions, whichever of the two is the target and whichever the key.
C14_ContainmentScoresBothWays ==
    spc = "scored" /\ (Contains(textA, textB) \/ Contains(textB, textA)) =>
        scoreAB > 0 /\ scoreBA > 0

(***************************************************************************)
(* Properties of Part IV                                                   *)
(***************************************************************************)

Candidates(st) ==
    <<st.targetText, st.elementText>> \o [k \in 1..Len(SemanticFields) |-> st.semanticInfo[SemanticFields[k]]]

\* the first of the candidates, from the k-th on, that is not empty and is
\* shorter than the cap
RECURSIVE FirstAccepted(_, _)
FirstAccepted(cands, k) ==
    IF k > Len(cands) THEN NoText
    ELSE IF Strip(cands[k]) # Empty /\ Len(Strip(cands[k])) < LengthCap THEN Text(Strip(cands[k]))
    ELSE FirstAccepted(cands, k + 1)

\* C18: convert takes target_text from the first non-empty candidate, in
\* the order targetText, elementText, then semanticInfo.labelText,
\* placeholder, ariaLabel, textContent, name, id, and accepts a candidate
\* only if it is shorter than 100 characters, whichever field it comes from.
C18_FirstCandidateUnderTheCap ==
    cpc = "converted" => converted = FirstAccepted(Candidates(step), 1)

(***************************************************************************)
(* Properties of Part VI                                                   *)
(***************************************************************************)

\* the messages of the actionable events
ActionableMessages ==
    {"CUSTOM_CLICK_EVENT", "CUSTOM_INPUT_EVENT", "CUSTOM_SELECT_EVENT", "CUSTOM_KEY_EVENT"}

\* C17: every actionable step the recorder emits (click, input, select,
\* radio, checkbox, key_press) has a target text, and it is not empty.
C17_ActionableStepsHaveTargetText ==
    epc = "sent" /\ message.type \in ActionableMessages =>
        message.hasTargetText /\ Strip(message.targetText) # Empty

\* the element has an associated label[for=id]
HasAssociatedLabel(e) == e.id # Empty /\ e.labelFor.present

C20_TargetTextFollowsTheHierarchy ==
    epc = "sent" /\ message.type \in {"CUSTOM_CLICK_EVENT", "CUSTOM_INPUT_EVENT"}
        /\ ~IsButton(element) =>
        message.targetText =
            FirstNonEmpty(<<message.semanticInfo.labelText, message.semanticInfo.textContent,
                            message.semanticInfo.placeholder, message.semanticInfo.title,
                            message.semanticInfo.ariaLabel, message.semanticInfo.value,
                            message.semanticInfo.name, message.semanticInfo.id>>)

(***************************************************************************)
(* Properties of Part VI - buttons                                         *)
(***************************************************************************)

\* what a button has of its own: its text, its aria-label, value and title
OwnSources(e) == {Empty, Strip(e.ownText), e.ariaLabel, e.value, e.title}

\* a click on a button was recorded
ButtonClicked ==
    epc = "sent" /\ message.type = "CUSTOM_CLICK_EVENT" /\ IsButton(element)

\* C21: the labelText extracted for a button and the targetText recorded for
\* a click on it are each the button's own text, value, aria-label or title,
\* never a label's text nor the text of the parent or of a sibling
C21_ButtonTextsAreItsOwn ==
    ButtonClicked =>
        /\ message.semanticInfo.labelText \in OwnSources(element)
        /\ message.targetText \in OwnSources(element)

(***************************************************************************)
(* Properties of Part VII                                                  *)
(***************************************************************************)

\* the radio button extractSemanticInfo was called on
Picked == radios[picked]

\* the call was on a radio input that has a name
NamedRadioExtracted ==
    gpc = "extracted" /\ Picked.kind = "radio" /\ Picked.name # Empty

\* the radio inputs of the document that share the name of the picked one
GroupOfPicked == {i \in 1..Len(radios) : radios[i].kind = "radio" /\ radios[i].name = Picked.name}

\* the text of an option: its label's text, or else its value
OptionTextOf(r) ==
    IF AssociatedLabel(r) # Empty THEN AssociatedLabel(r)
    ELSE IF ParentLabelText(r) # Empty THEN ParentLabelText(r)
    ELSE r.value

\* C22: for a radio input with a name, allOptions holds the option texts or
\* values of all radio inputs of that name and nothing else, each once, and
\* it is the list that a call on any other radio button of the group gives
C22_AllOptionsAreTheGroupsOptions ==
    NamedRadioExtracted =>
        LET all == radioButtonInfo.allOptions
        IN  /\ {all[k] : k \in 1..Len(all)} = {OptionTextOf(radios[i]) : i \in GroupOfPicked} \ {Empty}
            /\ \A k, l \in 1..Len(all) : all[k] = all[l] => k = l
            /\ \A i \in GroupOfPicked : allOptions(radios, radios[i]) = all

\* a group of two radio buttons with the same option text, which is listed once
C22_Witness ==
    /\ NamedRadioExtracted
    /\ Cardinality(GroupOfPicked) = 2
    /\ \A i \in GroupOfPicked : OptionTextOf(radios[i]) = <<"Y", "e", "s">>
    /\ radioButtonInfo.allOptions = << <<"Y", "e", "s">> >>

\* C23: every radio input of a named group contributes to allOptions the
\* optionValue that extraction reports for it, and the optionValue of the
\* radio button the call was on is an entry of allOptions
C23_AllOptionsAreOptionValues ==
    NamedRadioExtracted =>
        LET all == radioButtonInfo.allOptions
        IN  /\ \A i \in GroupOfPicked : OptionTextOf(radios[i]) = optionValue(radios[i])
            /\ radioButtonInfo.optionValue # Empty =>
                   \E k \in 1..Len(all) : all[k] = radioButtonInfo.optionValue

\* the call was on a radio input or a checkbox input
InputExtracted == gpc = "extracted" /\ Picked.kind \in {"radio", "checkbox"}

\* the trimmed text of a sibling if its length is within lo..hi, else nothing
SiblingTextWithin(sib, lo, hi) ==
    IF sib.present /\ Len(Strip(sib.text)) >= lo /\ Len(Strip(sib.text)) <= hi
    THEN Strip(sib.text) ELSE Empty

\* C24: the optionValue of a radio input or checkbox input is the first that
\* is not empty of: the text of label[for=id], the text of a parent label,
\* the text of the following and then of the preceding sibling if it has 2 to
\* 50 characters, and the value attribute
C24_OptionValueFollowsTheOrder ==
    InputExtracted =>
        radioButtonInfo.optionValue =
            FirstNonEmpty(<<AssociatedLabel(Picked), ParentLabelText(Picked),
                            SiblingTextWithin(Picked.next, 2, 50),
                            SiblingTextWithin(Picked.prev, 2, 50), Picked.value>>)

\* the option texts extraction reports for the radio inputs of the group
GroupOptionTexts == {optionValue(radios[i]) : i \in GroupOfPicked} \ {Empty}

\* the heading beside the picked radio button, in the same parent: its text
\* if that is not an option text of the group, else nothing
GroupHeading ==
    IF /\ Picked.prev.present /\ Picked.prev.heading
       /\ Strip(Picked.prev.text) \notin GroupOptionTexts
    THEN Strip(Picked.prev.text) ELSE Empty

\* C25: for a radio input with no fieldset legend, fieldName is the text of
\* the nearest heading or label above it whose text is not an option text of
\* the group: it is found whenever there is one, and fieldName is never an
\* option text of the group
C25_FieldNameIsTheGroupHeading ==
    gpc = "extracted" /\ Picked.kind = "radio" /\ Picked.legend = Empty =>
        /\ GroupHeading # Empty => radioButtonInfo.fieldName = GroupHeading
        /\ radioButtonInfo.fieldName \notin GroupOptionTexts

(***************************************************************************)
(* Properties of Part VI - the label of radio buttons and checkboxes       *)
(***************************************************************************)

\* a message with the semanticInfo of a radio input or checkbox input
GroupedInputRecorded ==
    /\ epc = "sent"
    /\ message.type \in {"CUSTOM_CLICK_EVENT", "CUSTOM_INPUT_EVENT"}
    /\ element.kind \in {"radio", "checkbox"}

\* C26: the label of a radio input or checkbox input is "fieldName:
\* optionValue" when both are there, and the one that is there otherwise; it
\* is empty only when both are empty
C26_CombinedLabel ==
    GroupedInputRecorded =>
        LET f == fieldName(element)
            o == optionValue(element)
            lt == message.semanticInfo.labelText
        IN  /\ f # Empty /\ o # Empty => lt = f \o <<":", " ">> \o o
            /\ f # Empty /\ o = Empty => lt = f
            /\ f = Empty /\ o # Empty => lt = o
            /\ lt = Empty => f = Empty /\ o = Empty

\* a radio button in a fieldset, labelled "Lb": its label is "Leg: Lb"
C26_Witness ==
    /\ GroupedInputRecorded
    /\ fieldName(element) = <<"L", "e", "g">>
    /\ optionValue(element) = <<"L", "b">>
    /\ message.semanticInfo.labelText = <<"L", "e", "g", ":", " ", "L", "b">>

(***************************************************************************)
(* Properties of Part VI - the caps on the extracted texts                 *)
(***************************************************************************)

\* C27: a text that is longer than the cap of its field is discarded and the
\* field is left empty: no field of the semanticInfo is above its cap, and
\* textContent is the whole trimmed text of the element or nothing, never
\* the beginning of a longer text
C27_OverlongTextIsDiscarded ==
    epc = "sent" /\ message.type # "CUSTOM_KEY_EVENT" =>
        /\ Len(message.semanticInfo.textContent) <= TextContentCap
        /\ Len(message.semanticInfo.labelText) <= ParentTextCap
        /\ message.semanticInfo.textContent \in {Empty, Strip(element.ownText)}

(***************************************************************************)
(* Properties of Part VIII                                                 *)
(***************************************************************************)

\* n and the elements above it
RECURSIVE SelfAndAncestors(_, _)
SelfAndAncestors(d, n) == IF n = 0 THEN {} ELSE {n} \cup SelfAndAncestors(d, d.parent[n])

\* where a path starts: an element with an id, or <body>
Anchors(d) == {m \in Nodes(d) : d.id[m] # "" \/ m = BodyNode}

\* the elements between the nearest anchor of n and n, and n itself
BelowAnchor(d, n) ==
    {m \in SelfAndAncestors(d, n) : \A a \in SelfAndAncestors(d, n) \cap Anchors(d) : a < m}

\* the number of elements before m under the parent of m that have its tag
PrecedingOfTag(d, m) ==
    Cardinality({l \in 1..(m - 1) : d.parent[l] = d.parent[m] /\ d.tag[l] = d.tag[m]})

\* C28: getXPath gives the id shortcut for an element with an id; for any
\* other element of the document it gives a path with one step per level,
\* each with the element's tag and 1 + the number of siblings of that tag
\* before it; it gives a path for every element of the document
C28_XPathOfEveryElement ==
    xpc = "done" =>
        /\ xpath.status = "path"
        /\ dom.id[target] # "" => xpath.steps = <<IdStep(dom.id[target])>>
        /\ dom.id[target] = "" =>
             \A m \in BelowAnchor(dom, target) :
                \E k \in 1..Len(xpath.steps) :
                    /\ xpath.steps[k] = PositionStep(dom.tag[m], 1 + PrecedingOfTag(dom, m))
                    /\ Len(xpath.steps) - k = Cardinality({l \in BelowAnchor(dom, target) : l > m})

(***************************************************************************)
(* Properties of Part IX                                                   *)
(***************************************************************************)

\* an offset in halves rounded to a whole number, halves upwards
RoundedHalfUp(h) == IF h % 2 = 0 THEN h \div 2 ELSE h \div 2 + 1

\* the RRWEB_EVENT message of scroll event ev with its offsets rounded
ScrollMessage(ev) ==
    [type |-> "RRWEB_EVENT",
     payload |-> Event(ev.id, "scroll", RoundedHalfUp(ev.x), RoundedHalfUp(ev.y))]

\* what is pending is the last scroll event, due DEBOUNCE_MS after it came
PendingIsLastEvent ==
    scrollTimeout.pending =>
        /\ [type |-> "RRWEB_EVENT", payload |-> scrollTimeout.event] = ScrollMessage(lastEvent.event)
        /\ scrollTimeout.remaining = DEBOUNCE_MS - sinceScroll

\* a scroll event arrives
ScrollArrives == lastEvent'.event.id = emitted + 1

\* it arrives with the direction the handler holds, or with none
ArrivesWithoutTurn ==
    /\ ScrollArrives
    /\ lastDirection = "null" \/ lastEvent'.direction \in {"null", lastDirection}

\* it arrives with a direction other than the one the handler holds
ArrivesWithTurn ==
    /\ ScrollArrives
    /\ lastDirection # "null" /\ lastEvent'.direction \notin {"null", lastDirection}

\* the pending event is pending no more, and no later event took its place
PendingEnds == scrollTimeout.pending /\ ~scrollTimeout'.pending

\* the pending event is sent, DEBOUNCE_MS after it came
SentWhenDue ==
    /\ sent' = Append(sent, ScrollMessage(lastEvent.event))
    /\ sinceScroll = DEBOUNCE_MS

\* C29: the scroll events of a run without change of direction send nothing
\* when they arrive; what is pending is the last of them; and the run ends
\* with that event sent, rounded, 500 ms after it came: one message per run
C29_RunYieldsOneMessage ==
    /\ []PendingIsLastEvent
    /\ [][ArrivesWithoutTurn => sent' = sent]_vars
    /\ [][PendingEnds => SentWhenDue]_vars

\* C29 as the recorder has it: a run ends with its last event sent 500 ms
\* after it came, unless a scroll event with a change of direction arrives
\* before that, which is sent in its place
C29_RunYieldsOneMessageUnlessTurned ==
    /\ []PendingIsLastEvent
    /\ [][ArrivesWithoutTurn => sent' = sent]_vars
    /\ [][PendingEnds => \/ SentWhenDue
                         \/ ArrivesWithTurn /\ sent' = Append(sent, ScrollMessage(lastEvent'.event))]_vars

\* two scroll events in a run, and the one message of the run: the second
\* event, sent 500 ms after it came
C29_Witness ==
    /\ emitted = 2
    /\ lastEvent.event.id = 2
    /\ lastEvent.direction # "null"
    /\ sent = <<ScrollMessage(lastEvent.event)>>
    /\ sinceScroll = DEBOUNCE_MS
    /\ ~scrollTimeout.pending

\* a scroll event arrives whose direction is not that of the scroll event before it
TurnsFromPrevious ==
    /\ ScrollArrives
    /\ lastEvent.direction # "null" /\ lastEvent'.direction \notin {"null", lastEvent.direction}

\* the arriving scroll event is sent at once and nothing is left pending
SentAtOnce ==
    /\ sent' = Append(sent, ScrollMessage(lastEvent'.event))
    /\ ~scrollTimeout'.pending

\* no event whose timer was cleared has been sent
CancelledNeverSent ==
    \A k \in 1..Len(sent) : sent[k].payload.source = "scroll" => sent[k].payload.id \notin cancelled

\* C30: a scroll event whose direction differs from that of the scroll event
\* before it is sent at once, and the event pending then is never sent
C30_TurnIsSentAtOnce ==
    /\ [][TurnsFromPrevious => SentAtOnce]_vars
    /\ []CancelledNeverSent

\* C30 as the recorder has it: the direction is compared with lastDirection,
\* which is null again once a pending event has been sent
C30_TurnFromLastDirectionIsSentAtOnce ==
    /\ [][ArrivesWithTurn => SentAtOnce]_vars
    /\ []CancelledNeverSent

\* a change of direction has cleared a timer, and the event that turned is
\* the one message sent
C30_Witness ==
    /\ cancelled # {}
    /\ sinceScroll = 0
    /\ lastEvent.event.id = emitted
    /\ sent = <<ScrollMessage(lastEvent.event)>>

\* the scroll events have come to an end: more than DEBOUNCE_MS have passed
\* since the last of them
ScrollingEnded == lastEvent.event.id > 0 /\ sinceScroll > DEBOUNCE_MS

\* C31: once the scroll events have ended and 500 ms have passed, a message
\* with the rounded offsets of the last scroll event has been sent, whether
\* that event came with a change of direction or without
C31_LastScrollPositionIsSent ==
    ScrollingEnded => \E k \in 1..Len(sent) : sent[k] = ScrollMessage(lastEvent.event)

\* three scroll events, the third with a change of direction that cleared
\* the timer of the second: the third is the one that was sent
C31_Witness ==
    /\ ScrollingEnded
    /\ emitted = 3
    /\ cancelled # {}
    /\ sent = <<ScrollMessage(lastEvent.event)>>

KeyWentDown == pressed # NoPress
UpperCased == ("a" :> "A") @@ ("A" :> "A") @@ ("1" :> "1")

\* C32: a keydown sends a CUSTOM_KEY_EVENT exactly when the key is one of the
\* captured keys, recorded as it is, or one letter or digit pressed with Ctrl
\* or Meta, recorded as "CmdOrCtrl+" and the character in upper case; any
\* other keydown sends nothing.
C32_KeydownIsLoggedIffCapturedOrCombo ==
    KeyWentDown =>
        IF pressed.key \in CAPTURED_KEYS
        THEN /\ epc = "sent"
             /\ message.type = "CUSTOM_KEY_EVENT"
             /\ message.key = [combo |-> FALSE, key |-> pressed.key]
        ELSE IF pressed.ctrlOrMeta /\ pressed.key \in DOMAIN UpperCased
        THEN /\ epc = "sent"
             /\ message.type = "CUSTOM_KEY_EVENT"
             /\ message.key = [combo |-> TRUE, key |-> UpperCased[pressed.key]]
        ELSE /\ epc = "ignored"
             /\ message = NoMessage

C32_Witness ==
    /\ pressed = [key |-> "a", ctrlOrMeta |-> TRUE]
    /\ message.key = [combo |-> TRUE, key |-> "A"]

PasswordEvent ==
    /\ elementType(element) = "password"
    /\ epc = "sent"
    /\ message.type \in {"CUSTOM_INPUT_EVENT", "CUSTOM_CLICK_EVENT"}

\* the message of the same event in the run where text v was typed instead
SameEventHadTyped(v) ==
    LET other == [element EXCEPT !.value = v]
    IN  IF message.type = "CUSTOM_INPUT_EVENT" THEN inputData(other) ELSE clickData(other)

\* C37: the text typed into a password input is in no message: the input or
\* click message sent for a password input is the one the same event sends in
\* the run that differs only in the text typed, the semanticInfo included.
C37_TypedPasswordIsInNoMessage ==
    PasswordEvent => \A v \in Values("password") : SameEventHadTyped(v) = message

\* C36: once stopRecorder has completed no message is sent: while the
\* recorder is stopped no step adds a message to those sent, also when a
\* debounced scroll event was pending at the stop.
C36_NothingIsSentAfterStop ==
    [][~isRecordingActive => sent' = sent]_vars

(***************************************************************************)
(* Properties of Part X                                                    *)
(***************************************************************************)
\* a handler has just called startRecorder while a session was running, or
\* stopRecorder while none was
CalledInVain ==
    \/ called' = "startRecorder" /\ stopRecording
    \/ called' = "stopRecorder" /\ ~stopRecording

C34_ActiveIffRunning ==
    isRecordingActive <=> (stopRecording /\ listeners)

\* C35: after SET_RECORDING_STATUS true has been handled the recorder is
\* running, after SET_RECORDING_STATUS false it is not, whatever has become
\* of the initial status request.
C35_StatusMessagesAreHonoured ==
    /\ handled = "SET_RECORDING_STATUS true" => stopRecording /\ sessions = 1
    /\ handled = "SET_RECORDING_STATUS false" => ~stopRecording /\ sessions = 0

\* C38: there is at most one overlay of each kind, and once recording has
\* stopped none is left in the document.
C38_OverlaysAreRemoved ==
    /\ hoverOverlays <= 1
    /\ focusOverlays <= 1
    /\ ~isRecordingActive => hoverOverlays = 0 /\ focusOverlays = 0

(***************************************************************************)
(* Properties of Part XI                                                   *)
(***************************************************************************)
\* the outcomes of the request so far: the alerts and the closing of the
\* dialog by the response handler
Outcomes == Len(alerts) + (IF dialogClosed THEN 1 ELSE 0)
Blank(t) == \A i \in 1..Len(t) : t[i] = " "
RequestEnded == request.state = "answered" \/ timeoutId.state = "fired"

\* C39: a request ends in exactly one outcome, the handling of the response
\* (the dialog closed, or an alert) or the alert of the timeout, never both;
\* a click with a blank goal sends no message.
C39_OneOutcomePerRequest ==
    /\ Outcomes <= 1
    /\ RequestEnded => Outcomes = 1
    /\ Blank(request.goal) => request.state \in {"none", "declined"} /\ Outcomes = 0

====
